---- MODULE Spec2Model ----
(***************************************************************************)
(* shield-deploy: the deploy / upgrade / rotate / finalize commands driving *)
(* the upgradeable loader of a remote ledger, with the local keypair and    *)
(* project state they load and save.                                        *)
(*                                                                          *)
(* One command runs at a time (a CLI invocation).  Every remote call of a   *)
(* command is one step: the step carries the local code up to and including *)
(* that call and the handling of its result.                                *)
(***************************************************************************)
EXTENDS Integers, Naturals, Sequences, FiniteSets, TLC

\* ---------------------------------------------------------------- bounds
MaxCmds == 4        \* commands started in one behaviour
MaxChunks == 2      \* longest payload, in whole chunks

\* ------------------------------------------------------ program constants
chunk_size == 900
\* balances are counted in units of 1_000_000 lamports
MIN_DEPLOY_BALANCE == 5000
MIN_UPGRADE_BALANCE == 1000
\* UpgradeableLoaderState::size_of_buffer_metadata()
BUFFER_METADATA_SIZE == 37
\* UpgradeableLoaderState::size_of_programdata_metadata()
PROGRAMDATA_METADATA_SIZE == 45

\* Option::None of an authority / of last_upgraded; keys and times are >= 1
None == 0
\* a program of somebody else that is on the ledger, and its authority
ForeignKey == 1
ForeignProg == 1
\* an address at which the ledger holds no account
MissingProg == 0
\* a program id string that is no public key
InvalidProg == -1
\* a remote query that failed; no program file
RpcErr == -1
NoFile == -1
\* the keypair `init` saved
InitKey == 2

\* payload lengths: empty, one byte, whole chunks, whole chunks plus a byte
Lens ==
    {0, 1} \cup {c * chunk_size : c \in 1..MaxChunks}
           \cup {c * chunk_size + 1 : c \in 1..(MaxChunks - 1)}

Balances ==
    {MIN_UPGRADE_BALANCE - 1, MIN_UPGRADE_BALANCE, MIN_DEPLOY_BALANCE}

VARIABLES
    deployer,       \* .shield/deployer.json: the persisted controlling key
    state,          \* .shield/state.json: ProjectState
    programdata,    \* ledger: program id -> Program-Data account
    buffers,        \* ledger: buffer id -> buffer account, for the
                    \*   buffers whose key the running command holds
    lagging,        \* ledger reads: program id -> account before this
                    \*   command's confirmed write, which a read may return
    confirmed,      \* ledger history: <<kind, program>> of confirmed txs
    clock,          \* chrono::Utc::now(), one tick per command
    cmd,            \* the command that runs, or ran last
    start,          \* the keypair, state and ledger when it started
    pc,             \* position of the running command
    run,            \* locals of the running command
    log,            \* remote calls and saves of the current command
    result          \* what the last command returned

vars == <<deployer, state, programdata, buffers, lagging, confirmed, clock,
          cmd, start, pc, run, log, result>>

local_vars == <<deployer, state>>
ledger_vars == <<programdata, buffers, lagging, confirmed>>

\* Keypair::new() in the command that started at time t: a key no earlier
\* command has seen.  A command generates at most one controlling keypair,
\* one program keypair and one buffer keypair.
NewDeployer(t) == InitKey + t
NewProgram(t) == ForeignProg + t
\* mutant: every run has the buffer keypair of the first
NewBuffer_reused(t) == t - t + InitKey - 1
NewBuffer(t) == t

\* ------------------------------------------------------------- helpers
Last(s) == s[Len(s)]

\* the locals of a command; a local a command does not have stays 0
NoRun ==
    [cmd |-> "none", deployer |-> 0, balance |-> 0, len |-> 0,
     program_id |-> 0, buffer_pubkey |-> 0, chunk_index |-> 0,
     new_deployer |-> 0, index |-> 0, progress |-> <<>>,
     loaded |-> [deployed_programs |-> <<>>, last_balance |-> 0]]

\* mutant: the total is rounded down
total_chunks_rounded_down(len) == len \div chunk_size

\* (program_data.len() + chunk_size - 1) / chunk_size
total_chunks(len) == (len + chunk_size - 1) \div chunk_size

\* the progress line is printed for every tenth piece
progress_interval == 10

\* if (chunk_index + 1) % 10 == 0 || chunk_index + 1 == total_chunks
prints_progress(chunk_index, len) ==
    \/ (chunk_index + 1) % progress_interval = 0
    \/ chunk_index + 1 = total_chunks(len)

\* the progress lines on standard output after the write of piece
\* chunk_index + 1 has been confirmed: println!("Progress: {}/{} chunks")
printed(lines, chunk_index, len) ==
    IF prints_progress(chunk_index, len)
      THEN Append(lines, chunk_index + 1)
      ELSE lines

\* mutant: the last, shorter slice is dropped
chunks_count_whole_only(len) == len \div chunk_size

\* mutant: an empty payload yields one, empty slice
chunks_count_never_zero(len) ==
    IF len % chunk_size = 0 /\ len > 0 THEN len \div chunk_size
    ELSE len \div chunk_size + 1

\* program_data.chunks(chunk_size): the number of slices the iterator yields
chunks_count(len) ==
    IF len = 0 THEN 0
    ELSE IF len % chunk_size = 0 THEN len \div chunk_size
    ELSE len \div chunk_size + 1

\* mutant: every slice is a whole chunk, the last one too
chunk_len_always_full(len, chunk_index) == chunk_size

\* program_data.chunks(chunk_size): the length of slice chunk_index (0-based)
chunk_len(len, chunk_index) ==
    IF (chunk_index + 1) * chunk_size <= len THEN chunk_size
    ELSE len - chunk_index * chunk_size

\* mutant: the payload is left out of the size
size_of_buffer_header_only(len) == BUFFER_METADATA_SIZE

\* UpgradeableLoaderState::size_of_buffer(program_data.len())
size_of_buffer(len) == BUFFER_METADATA_SIZE + len

\* UpgradeableLoaderState::size_of_programdata(program_data_len), the size
\* for which the rent-exempt minimum of the Program-Data account is asked
size_of_programdata(len) == PROGRAMDATA_METADATA_SIZE + len

\* a ProgramData account as bincode decodes it
ProgramData(authority, code) ==
    [kind |-> "ProgramData", upgrade_authority_address |-> authority,
     code |-> code]

\* the ledger's rule: only the current authority may write new code or
\* change or clear the authority
AuthorityIs(prog, key) ==
    /\ prog \in DOMAIN programdata
    /\ programdata[prog].upgrade_authority_address # None
    /\ programdata[prog].upgrade_authority_address = key

\* send_and_confirm_transaction: "confirmed" (the ledger executed it) or
\* "failed" (rejected, or never landed); only a transaction the ledger
\* accepts can be confirmed
TxOutcomes(accepted) ==
    IF accepted THEN {"confirmed", "failed"} ELSE {"failed"}

\* what get_account gives when there is no account or the call failed
AccountNotFound ==
    [kind |-> "NotFound", upgrade_authority_address |-> None, code |-> 0]

\* rpc_client.get_account(programdata_address): no account (or the call
\* failed), the account, or the account as a lagging node still has it
GetAccount(prog) ==
    {AccountNotFound}
      \cup (IF prog \in DOMAIN programdata THEN {programdata[prog]} ELSE {})
      \cup (IF prog \in DOMAIN lagging THEN {lagging[prog]} ELSE {})

Extend(f, k, v) == [x \in DOMAIN f \cup {k} |-> IF x = k THEN v ELSE f[x]]
Remove(f, k) == [x \in DOMAIN f \ {k} |-> f[x]]

\* what a command returns: Ok(()), Ok(()) after a declined prompt, or an
\* error naming the step that failed (k of n for a chunk write)
Ok == [ret |-> "Ok", step |-> "", k |-> 0, n |-> 0]
Cancelled == [ret |-> "Cancelled", step |-> "", k |-> 0, n |-> 0]
Err(step) == [ret |-> "Err", step |-> step, k |-> 0, n |-> 0]
ErrChunk(k, n) ==
    [ret |-> "Err", step |-> "Failed to write chunk", k |-> k, n |-> n]
NoResult == [ret |-> "none", step |-> "", k |-> 0, n |-> 0]
\* the process ended without returning from the command
Stopped == [ret |-> "Stopped", step |-> "", k |-> 0, n |-> 0]

\* the end of a command: back to the shell with its result
Return(r) ==
    /\ pc' = "idle"
    /\ result' = r
    /\ run' = NoRun

\* the start of a command: a new process, with a later wall-clock time.
\* Every node has caught up with the transactions of the previous command,
\* and the buffers that command left behind stay on the ledger for good but
\* out of reach: their keys died with its process.
Begin(command) ==
    /\ pc = "idle"
    /\ clock < MaxCmds
    /\ clock' = clock + 1
    /\ cmd' = command
    /\ start' = [deployer |-> deployer, state |-> state,
                 programdata |-> programdata]
    /\ log' = <<>>
    /\ lagging' = <<>>
    /\ buffers' = <<>>

\* signers of a transaction: the controlling keypair, a buffer's own keypair,
\* a program's identity keypair
DeployerKey(key) == <<"deployer", key>>
BufferKey(buf) == <<"buffer", buf>>
ProgramKey(prog) == <<"program", prog>>

\* events of the log
TxCreateBuffer(buf, size, signers, out) ==
    [kind |-> "create_buffer", buf |-> buf, size |-> size,
     signers |-> signers, out |-> out]
TxWrite(buf, offset, len, signers, out) ==
    [kind |-> "write", buf |-> buf, offset |-> offset, len |-> len,
     signers |-> signers, out |-> out]
TxDeploy(prog, buf, programdata_size, max_data_len, signers, out) ==
    [kind |-> "deploy", prog |-> prog, buf |-> buf,
     programdata_size |-> programdata_size,
     max_data_len |-> max_data_len, signers |-> signers, out |-> out]
TxUpgrade(prog, buf, signers, out) ==
    [kind |-> "upgrade", prog |-> prog, buf |-> buf,
     signers |-> signers, out |-> out]
TxSetAuthority(prog, new_authority, signers, out) ==
    [kind |-> "set_authority", prog |-> prog,
     new_authority |-> new_authority, signers |-> signers, out |-> out]
EvVerify(prog, expected, account, out) ==
    [kind |-> "verify", prog |-> prog, expected |-> expected,
     account |-> account, out |-> out]
EvVerifyImmutable(prog, account, out) ==
    [kind |-> "verify_immutable", prog |-> prog, account |-> account,
     out |-> out]
EvSave(what, out) == [kind |-> what, out |-> out]

\* --------------------------------------------------- authority verifier
\* mutant: any present authority passes, the comparison is left out
verify_upgrade_authority_any_key(account, expected_authority) ==
    IF account = AccountNotFound
      THEN Err("ProgramData account not found")
    ELSE IF account.kind = "ProgramData"
      THEN IF account.upgrade_authority_address # None
             THEN Ok
           ELSE Err("Program is not upgradeable (authority set to None)")
    ELSE Err("Invalid ProgramData account state")

\* mutant: a program without an authority is taken as upgradeable
verify_upgrade_authority_none_ok(account, expected_authority) ==
    IF account = AccountNotFound
      THEN Err("ProgramData account not found")
    ELSE IF account.kind = "ProgramData"
      THEN IF account.upgrade_authority_address # None
             THEN IF account.upgrade_authority_address = expected_authority
                    THEN Ok
                  ELSE Err("Upgrade authority mismatch")
           ELSE Ok
    ELSE Err("Invalid ProgramData account state")

\* upgrade.rs verify_upgrade_authority
verify_upgrade_authority(account, expected_authority) ==
    IF account = AccountNotFound
      THEN Err("ProgramData account not found")
    ELSE IF account.kind = "ProgramData"
      THEN IF account.upgrade_authority_address # None
             THEN IF account.upgrade_authority_address = expected_authority
                    THEN Ok
                  ELSE Err("Upgrade authority mismatch")
           ELSE Err("Program is not upgradeable (authority set to None)")
    ELSE Err("Invalid ProgramData account state")

\* mutant: another key is reported with the error of an absent authority
verify_current_authority_one_error(account, expected_authority) ==
    IF account = AccountNotFound
      THEN Err("ProgramData account not found")
    ELSE IF account.kind = "ProgramData"
      THEN IF account.upgrade_authority_address = expected_authority
             THEN Ok
           ELSE Err("Program is already immutable")
    ELSE Err("Invalid ProgramData account state")

\* mutant: an absent authority is not refused
verify_current_authority_none_ok(account, expected_authority) ==
    IF account = AccountNotFound
      THEN Err("ProgramData account not found")
    ELSE IF account.kind = "ProgramData"
      THEN IF account.upgrade_authority_address # None
             THEN IF account.upgrade_authority_address = expected_authority
                    THEN Ok
                  ELSE Err("Authority mismatch")
           ELSE Ok
    ELSE Err("Invalid ProgramData account state")

\* finalize.rs verify_current_authority
verify_current_authority(account, expected_authority) ==
    IF account = AccountNotFound
      THEN Err("ProgramData account not found")
    ELSE IF account.kind = "ProgramData"
      THEN IF account.upgrade_authority_address # None
             THEN IF account.upgrade_authority_address = expected_authority
                    THEN Ok
                  ELSE Err("Authority mismatch")
           ELSE Err("Program is already immutable")
    ELSE Err("Invalid ProgramData account state")

\* mutant: the decoded authority is not looked at
verify_immutable_unchecked(account) ==
    IF account = AccountNotFound
      THEN Err("ProgramData account not found")
    ELSE IF account.kind = "ProgramData"
      THEN Ok
    ELSE Err("Invalid ProgramData account state")

\* finalize.rs verify_immutable
verify_immutable(account) ==
    IF account = AccountNotFound
      THEN Err("ProgramData account not found")
    ELSE IF account.kind = "ProgramData"
      THEN IF account.upgrade_authority_address = None
             THEN Ok
           ELSE Err("Finalization failed: authority is still set")
    ELSE Err("Invalid ProgramData account state")


Init ==
    /\ deployer = InitKey
    /\ state = [deployed_programs |-> <<>>, last_balance |-> 0]
    /\ programdata = (ForeignProg :> ProgramData(ForeignKey, 0))
    /\ buffers = <<>>
    /\ lagging = <<>>
    /\ confirmed = {}
    /\ clock = 0
    /\ cmd = "none"
    /\ start = [deployer |-> deployer, state |-> state,
                programdata |-> programdata]
    /\ pc = "idle"
    /\ run = NoRun
    /\ log = <<>>
    /\ result = NoResult

\* ------------------------------------------------------------- deploy
\* deploy::execute up to the call of deploy_program_bpf_upgradeable
DeployStart(program_file, confirm, balance) ==
    /\ Begin("deploy")
    /\ UNCHANGED <<local_vars, programdata, confirmed>>
    /\ IF deployer = None
         THEN Return(Err("No private deployer found"))
       ELSE IF program_file = NoFile
         THEN Return(Err("No program file found"))
       ELSE IF ~confirm
         THEN Return(Cancelled)
       ELSE IF balance = RpcErr
         THEN Return(Err("Failed to get deployer balance"))
       ELSE IF balance < MIN_DEPLOY_BALANCE
         THEN Return(Err("Insufficient deployer balance"))
       ELSE /\ run' = [NoRun EXCEPT !.cmd = "deploy",
                        !.deployer = deployer, !.balance = balance,
                        !.len = program_file,
                        !.program_id = NewProgram(clock')]
            /\ pc' = "dep_create_buffer"
            /\ result' = NoResult

\* mutant: the confirmation of the buffer creation is not waited for
DeployCreateBuffer_not_awaited(out) ==
    /\ pc = "dep_create_buffer"
    /\ UNCHANGED <<cmd, start>>
    /\ UNCHANGED <<local_vars, programdata, lagging, confirmed, clock>>
    /\ LET buf == NewBuffer(clock)
           size == size_of_buffer(run.len)
       IN IF out = "rpc_err"
            THEN /\ Return(Err("Failed to get rent exemption for buffer"))
                 /\ UNCHANGED <<buffers, log>>
          ELSE /\ log' = Append(log, TxCreateBuffer(buf, size,
                                     {DeployerKey(run.deployer), BufferKey(buf)}, out))
               /\ buffers' = IF out = "confirmed"
                               THEN Extend(buffers, buf,
                                        [size |-> size, written |-> <<>>])
                             ELSE buffers
               /\ run' = [run EXCEPT !.buffer_pubkey = buf]
               /\ pc' = IF chunks_count(run.len) = 0
                          THEN "dep_activate" ELSE "dep_write"
               /\ UNCHANGED result

\* deploy_program_bpf_upgradeable: the buffer-creation transaction
DeployCreateBuffer(out) ==
    /\ pc = "dep_create_buffer"
    /\ UNCHANGED <<cmd, start>>
    /\ UNCHANGED <<local_vars, programdata, lagging, confirmed, clock>>
    /\ LET buf == NewBuffer(clock)
           size == size_of_buffer(run.len)
       IN IF out = "rpc_err"
            THEN /\ Return(Err("Failed to get rent exemption for buffer"))
                 /\ UNCHANGED <<buffers, log>>
          ELSE /\ log' = Append(log, TxCreateBuffer(buf, size,
                                     {DeployerKey(run.deployer), BufferKey(buf)}, out))
               /\ IF out = "confirmed"
                    THEN /\ buffers' = Extend(buffers, buf,
                                 [size |-> size, written |-> <<>>])
                         /\ run' = [run EXCEPT !.buffer_pubkey = buf]
                         /\ pc' = IF chunks_count(run.len) = 0
                                    THEN "dep_activate" ELSE "dep_write"
                         /\ UNCHANGED result
                  ELSE /\ Return(Err("Failed to create buffer account"))
                       /\ UNCHANGED buffers

\* mutant: after a failed write the loop goes on with the next chunk
DeployWriteChunk_goes_on(out) ==
    /\ pc = "dep_write"
    /\ UNCHANGED <<cmd, start>>
    /\ UNCHANGED <<local_vars, programdata, lagging, confirmed, clock>>
    /\ LET buf == run.buffer_pubkey
           offset == run.chunk_index * chunk_size
           len == chunk_len(run.len, run.chunk_index)
       IN IF out = "rpc_err"
            THEN /\ Return(Err("Failed to write program data"))
                 /\ UNCHANGED <<buffers, log>>
          ELSE /\ log' = Append(log, TxWrite(buf, offset, len,
                                     {DeployerKey(run.deployer)}, out))
               /\ buffers' = IF out = "confirmed"
                               THEN [buffers EXCEPT ![buf].written =
                                        Append(@, <<offset, len>>)]
                             ELSE buffers
               /\ run' = [run EXCEPT !.chunk_index = @ + 1,
                                     !.progress = printed(@, run.chunk_index,
                                                          run.len)]
               /\ pc' = IF run.chunk_index + 1 = chunks_count(run.len)
                          THEN "dep_activate" ELSE "dep_write"
               /\ UNCHANGED result

\* mutant: the loop does not move on to the next piece
DeployWriteChunk_same_piece(out) ==
    /\ pc = "dep_write"
    /\ UNCHANGED <<cmd, start>>
    /\ UNCHANGED <<local_vars, programdata, lagging, confirmed, clock>>
    /\ LET buf == run.buffer_pubkey
           offset == run.chunk_index * chunk_size
           len == chunk_len(run.len, run.chunk_index)
       IN IF out = "rpc_err"
            THEN /\ Return(Err("Failed to write program data"))
                 /\ UNCHANGED <<buffers, log>>
          ELSE /\ log' = Append(log, TxWrite(buf, offset, len,
                                     {DeployerKey(run.deployer)}, out))
               /\ IF out = "confirmed"
                    THEN /\ buffers' = [buffers EXCEPT ![buf].written =
                                 Append(@, <<offset, len>>)]
                         /\ run' = [run EXCEPT !.chunk_index = @,
                                               !.progress = printed(@, run.chunk_index,
                                                                    run.len)]
                         /\ pc' = IF run.chunk_index + 1
                                       = chunks_count(run.len)
                                    THEN "dep_activate" ELSE "dep_write"
                         /\ UNCHANGED result
                  ELSE /\ Return(ErrChunk(run.chunk_index + 1,
                                          total_chunks(run.len)))
                       /\ UNCHANGED buffers

\* deploy.rs write_program_data_to_buffer: one turn of the loop
DeployWriteChunk(out) ==
    /\ pc = "dep_write"
    /\ UNCHANGED <<cmd, start>>
    /\ UNCHANGED <<local_vars, programdata, lagging, confirmed, clock>>
    /\ LET buf == run.buffer_pubkey
           offset == run.chunk_index * chunk_size
           len == chunk_len(run.len, run.chunk_index)
       IN IF out = "rpc_err"
            THEN /\ Return(Err("Failed to write program data"))
                 /\ UNCHANGED <<buffers, log>>
          ELSE /\ log' = Append(log, TxWrite(buf, offset, len,
                                     {DeployerKey(run.deployer)}, out))
               /\ IF out = "confirmed"
                    THEN /\ buffers' = [buffers EXCEPT ![buf].written =
                                 Append(@, <<offset, len>>)]
                         /\ run' = [run EXCEPT !.chunk_index = @ + 1,
                                               !.progress = printed(@, run.chunk_index,
                                                                    run.len)]
                         /\ pc' = IF run.chunk_index + 1
                                       = chunks_count(run.len)
                                    THEN "dep_activate" ELSE "dep_write"
                         /\ UNCHANGED result
                  ELSE /\ Return(ErrChunk(run.chunk_index + 1,
                                          total_chunks(run.len)))
                       /\ UNCHANGED buffers

\* mutant: the program is activated under a key that is not the deployer's
DeployActivate_other_authority(out) ==
    /\ pc = "dep_activate"
    /\ UNCHANGED <<cmd, start>>
    /\ UNCHANGED <<local_vars, lagging, clock>>
    /\ LET buf == run.buffer_pubkey
           prog == run.program_id
       IN IF out = "rpc_err"
            THEN /\ Return(Err("Failed to get rent exemption for program data"))
                 /\ UNCHANGED <<programdata, buffers, confirmed, log>>
          ELSE /\ log' = Append(log, TxDeploy(prog, buf,
                                     size_of_programdata(run.len), run.len * 2,
                                     {DeployerKey(run.deployer), ProgramKey(prog)}, out))
               /\ IF out = "confirmed"
                    THEN /\ programdata' = Extend(programdata, prog,
                                 ProgramData(ForeignKey, buf))
                         /\ buffers' = Remove(buffers, buf)
                         /\ confirmed' = confirmed \cup {<<"deploy", prog>>}
                         /\ pc' = "dep_save"
                         /\ UNCHANGED <<result, run>>
                  ELSE /\ Return(Err("Failed to deploy program"))
                       /\ UNCHANGED <<programdata, buffers, confirmed>>

\* mutant: only the payload length is reserved
DeployActivate_exact_len(out) ==
    /\ pc = "dep_activate"
    /\ UNCHANGED <<cmd, start>>
    /\ UNCHANGED <<local_vars, lagging, clock>>
    /\ LET buf == run.buffer_pubkey
           prog == run.program_id
       IN IF out = "rpc_err"
            THEN /\ Return(Err("Failed to get rent exemption for program data"))
                 /\ UNCHANGED <<programdata, buffers, confirmed, log>>
          ELSE /\ log' = Append(log, TxDeploy(prog, buf,
                                     size_of_programdata(run.len), run.len,
                                     {DeployerKey(run.deployer), ProgramKey(prog)}, out))
               /\ IF out = "confirmed"
                    THEN /\ programdata' = Extend(programdata, prog,
                                 ProgramData(run.deployer, buf))
                         /\ buffers' = Remove(buffers, buf)
                         /\ confirmed' = confirmed \cup {<<"deploy", prog>>}
                         /\ pc' = "dep_save"
                         /\ UNCHANGED <<result, run>>
                  ELSE /\ Return(Err("Failed to deploy program"))
                       /\ UNCHANGED <<programdata, buffers, confirmed>>

\* deploy_program_bpf_upgradeable: the activation transaction
DeployActivate(out) ==
    /\ pc = "dep_activate"
    /\ UNCHANGED <<cmd, start>>
    /\ UNCHANGED <<local_vars, lagging, clock>>
    /\ LET buf == run.buffer_pubkey
           prog == run.program_id
       IN IF out = "rpc_err"
            THEN /\ Return(Err("Failed to get rent exemption for program data"))
                 /\ UNCHANGED <<programdata, buffers, confirmed, log>>
          ELSE /\ log' = Append(log, TxDeploy(prog, buf,
                                     size_of_programdata(run.len), run.len * 2,
                                     {DeployerKey(run.deployer), ProgramKey(prog)}, out))
               /\ IF out = "confirmed"
                    THEN /\ programdata' = Extend(programdata, prog,
                                 ProgramData(run.deployer, buf))
                         /\ buffers' = Remove(buffers, buf)
                         /\ confirmed' = confirmed \cup {<<"deploy", prog>>}
                         /\ pc' = "dep_save"
                         /\ UNCHANGED <<result, run>>
                  ELSE /\ Return(Err("Failed to deploy program"))
                       /\ UNCHANGED <<programdata, buffers, confirmed>>

\* mutant: the record is saved before the activation transaction is sent
DeploySave_before_activation(saved) ==
    /\ pc \in {"dep_activate", "dep_save"}
    /\ UNCHANGED <<cmd, start>>
    /\ UNCHANGED <<deployer, ledger_vars, clock>>
    /\ log' = Append(log, EvSave("save_state", saved))
    /\ IF saved
         THEN /\ state' = [deployed_programs |->
                               Append(state.deployed_programs,
                                   [program_id |-> run.program_id,
                                    deployed_at |-> clock,
                                    last_upgraded |-> None]),
                           last_balance |-> run.balance]
              /\ Return(Ok)
       ELSE /\ Return(Err("Failed to write state"))
            /\ UNCHANGED state

\* deploy::execute after deploy_program_bpf_upgradeable returned Ok
DeploySave(saved) ==
    /\ pc = "dep_save"
    /\ UNCHANGED <<cmd, start>>
    /\ UNCHANGED <<deployer, ledger_vars, clock>>
    /\ log' = Append(log, EvSave("save_state", saved))
    /\ IF saved
         THEN /\ state' = [deployed_programs |->
                               Append(state.deployed_programs,
                                   [program_id |-> run.program_id,
                                    deployed_at |-> clock,
                                    last_upgraded |-> None]),
                           last_balance |-> run.balance]
              /\ Return(Ok)
       ELSE /\ Return(Err("Failed to write state"))
            /\ UNCHANGED state

\* deploy::execute: the process stops (it is killed, the machine goes down)
\* between two of its remote calls, or between the confirmation of the
\* activation and the save
DeployStop ==
    /\ cmd = "deploy"
    /\ pc # "idle"
    /\ UNCHANGED <<cmd, start>>
    /\ UNCHANGED <<local_vars, ledger_vars, clock, log>>
    /\ Return(Stopped)

\* ------------------------------------------------------------ upgrade
\* upgrade::execute up to the call of upgrade_program_bpf_upgradeable
UpgradeStart(program_file, confirm, balance) ==
    /\ Begin("upgrade")
    /\ UNCHANGED <<local_vars, programdata, confirmed>>
    /\ IF deployer = None
         THEN Return(Err("No private deployer found"))
       ELSE IF state.deployed_programs = <<>>
         THEN Return(Err("No programs deployed yet"))
       ELSE IF program_file = NoFile
         THEN Return(Err("No program file found"))
       ELSE IF ~confirm
         THEN Return(Cancelled)
       ELSE IF balance = RpcErr
         THEN Return(Err("Failed to get deployer balance"))
       ELSE IF balance < MIN_UPGRADE_BALANCE
         THEN Return(Err("Insufficient deployer balance"))
       ELSE /\ run' = [NoRun EXCEPT !.cmd = "upgrade",
                        !.deployer = deployer, !.loaded = state,
                        !.balance = balance, !.len = program_file,
                        !.program_id =
                            Last(state.deployed_programs).program_id]
            /\ pc' = "upg_verify"
            /\ result' = NoResult

\* mutant: the result of the verifier is not looked at
UpgradeVerify_result_ignored(account) ==
    /\ pc = "upg_verify"
    /\ UNCHANGED <<cmd, start>>
    /\ UNCHANGED <<local_vars, ledger_vars, clock>>
    /\ LET r == verify_upgrade_authority(account, run.deployer)
       IN /\ log' = Append(log, EvVerify(run.program_id, run.deployer,
                                    account, r))
          /\ pc' = "upg_create_buffer"
          /\ UNCHANGED <<result, run>>

\* upgrade_program_bpf_upgradeable: the call of verify_upgrade_authority
UpgradeVerify(account) ==
    /\ pc = "upg_verify"
    /\ UNCHANGED <<cmd, start>>
    /\ UNCHANGED <<local_vars, ledger_vars, clock>>
    /\ LET r == verify_upgrade_authority(account, run.deployer)
       IN /\ log' = Append(log, EvVerify(run.program_id, run.deployer,
                                    account, r))
          /\ IF r = Ok
               THEN /\ pc' = "upg_create_buffer"
                    /\ UNCHANGED <<result, run>>
             ELSE Return(r)

\* mutant: the buffer creation is signed by the payer alone
UpgradeCreateBuffer_payer_only(out) ==
    /\ pc = "upg_create_buffer"
    /\ UNCHANGED <<cmd, start>>
    /\ UNCHANGED <<local_vars, programdata, lagging, confirmed, clock>>
    /\ LET buf == NewBuffer(clock)
           size == size_of_buffer(run.len)
       IN IF out = "rpc_err"
            THEN /\ Return(Err("Failed to get rent exemption for buffer"))
                 /\ UNCHANGED <<buffers, log>>
          ELSE /\ log' = Append(log, TxCreateBuffer(buf, size,
                                     {DeployerKey(run.deployer)}, out))
               /\ IF out = "confirmed"
                    THEN /\ buffers' = Extend(buffers, buf,
                                 [size |-> size, written |-> <<>>])
                         /\ run' = [run EXCEPT !.buffer_pubkey = buf]
                         /\ pc' = IF chunks_count(run.len) = 0
                                    THEN "upg_swap" ELSE "upg_write"
                         /\ UNCHANGED result
                  ELSE /\ Return(Err("Failed to create buffer account"))
                       /\ UNCHANGED buffers

\* upgrade_program_bpf_upgradeable: the buffer-creation transaction
UpgradeCreateBuffer(out) ==
    /\ pc = "upg_create_buffer"
    /\ UNCHANGED <<cmd, start>>
    /\ UNCHANGED <<local_vars, programdata, lagging, confirmed, clock>>
    /\ LET buf == NewBuffer(clock)
           size == size_of_buffer(run.len)
       IN IF out = "rpc_err"
            THEN /\ Return(Err("Failed to get rent exemption for buffer"))
                 /\ UNCHANGED <<buffers, log>>
          ELSE /\ log' = Append(log, TxCreateBuffer(buf, size,
                                     {DeployerKey(run.deployer), BufferKey(buf)}, out))
               /\ IF out = "confirmed"
                    THEN /\ buffers' = Extend(buffers, buf,
                                 [size |-> size, written |-> <<>>])
                         /\ run' = [run EXCEPT !.buffer_pubkey = buf]
                         /\ pc' = IF chunks_count(run.len) = 0
                                    THEN "upg_swap" ELSE "upg_write"
                         /\ UNCHANGED result
                  ELSE /\ Return(Err("Failed to create buffer account"))
                       /\ UNCHANGED buffers

\* mutant: a failed write is submitted again
UpgradeWriteChunk_retries(out) ==
    /\ pc = "upg_write"
    /\ UNCHANGED <<cmd, start>>
    /\ UNCHANGED <<local_vars, programdata, lagging, confirmed, clock>>
    /\ LET buf == run.buffer_pubkey
           offset == run.chunk_index * chunk_size
           len == chunk_len(run.len, run.chunk_index)
       IN IF out = "rpc_err"
            THEN /\ Return(Err("Failed to write program data"))
                 /\ UNCHANGED <<buffers, log>>
          ELSE /\ log' = Append(log, TxWrite(buf, offset, len,
                                     {DeployerKey(run.deployer)}, out))
               /\ IF out = "confirmed"
                    THEN /\ buffers' = [buffers EXCEPT ![buf].written =
                                 Append(@, <<offset, len>>)]
                         /\ run' = [run EXCEPT !.chunk_index = @ + 1,
                                               !.progress = printed(@, run.chunk_index,
                                                                    run.len)]
                         /\ pc' = IF run.chunk_index + 1
                                       = chunks_count(run.len)
                                    THEN "upg_swap" ELSE "upg_write"
                         /\ UNCHANGED result
                  ELSE UNCHANGED <<buffers, run, pc, result>>

\* mutant: the offset of a piece is its number, not its place in bytes
UpgradeWriteChunk_offset_in_chunks(out) ==
    /\ pc = "upg_write"
    /\ UNCHANGED <<cmd, start>>
    /\ UNCHANGED <<local_vars, programdata, lagging, confirmed, clock>>
    /\ LET buf == run.buffer_pubkey
           offset == run.chunk_index
           len == chunk_len(run.len, run.chunk_index)
       IN IF out = "rpc_err"
            THEN /\ Return(Err("Failed to write program data"))
                 /\ UNCHANGED <<buffers, log>>
          ELSE /\ log' = Append(log, TxWrite(buf, offset, len,
                                     {DeployerKey(run.deployer)}, out))
               /\ IF out = "confirmed"
                    THEN /\ buffers' = [buffers EXCEPT ![buf].written =
                                 Append(@, <<offset, len>>)]
                         /\ run' = [run EXCEPT !.chunk_index = @ + 1,
                                               !.progress = printed(@, run.chunk_index,
                                                                    run.len)]
                         /\ pc' = IF run.chunk_index + 1
                                       = chunks_count(run.len)
                                    THEN "upg_swap" ELSE "upg_write"
                         /\ UNCHANGED result
                  ELSE /\ Return(ErrChunk(run.chunk_index + 1,
                                          total_chunks(run.len)))
                       /\ UNCHANGED buffers

\* upgrade.rs write_program_data_to_buffer: one turn of the loop
UpgradeWriteChunk(out) ==
    /\ pc = "upg_write"
    /\ UNCHANGED <<cmd, start>>
    /\ UNCHANGED <<local_vars, programdata, lagging, confirmed, clock>>
    /\ LET buf == run.buffer_pubkey
           offset == run.chunk_index * chunk_size
           len == chunk_len(run.len, run.chunk_index)
       IN IF out = "rpc_err"
            THEN /\ Return(Err("Failed to write program data"))
                 /\ UNCHANGED <<buffers, log>>
          ELSE /\ log' = Append(log, TxWrite(buf, offset, len,
                                     {DeployerKey(run.deployer)}, out))
               /\ IF out = "confirmed"
                    THEN /\ buffers' = [buffers EXCEPT ![buf].written =
                                 Append(@, <<offset, len>>)]
                         /\ run' = [run EXCEPT !.chunk_index = @ + 1,
                                               !.progress = printed(@, run.chunk_index,
                                                                    run.len)]
                         /\ pc' = IF run.chunk_index + 1
                                       = chunks_count(run.len)
                                    THEN "upg_swap" ELSE "upg_write"
                         /\ UNCHANGED result
                  ELSE /\ Return(ErrChunk(run.chunk_index + 1,
                                          total_chunks(run.len)))
                       /\ UNCHANGED buffers

\* mutant: the time of the upgrade is saved when the transaction is sent
UpgradeSwap_saves_first(out) ==
    /\ pc = "upg_swap"
    /\ UNCHANGED <<cmd, start>>
    /\ UNCHANGED <<deployer, clock>>
    /\ state' = [deployed_programs |->
                     [run.loaded.deployed_programs EXCEPT
                         ![Len(run.loaded.deployed_programs)]
                             .last_upgraded = clock],
                 last_balance |-> run.balance]
    /\ LET buf == run.buffer_pubkey
           prog == run.program_id
       IN IF out = "rpc_err"
            THEN /\ Return(Err("Failed to get latest blockhash"))
                 /\ UNCHANGED <<ledger_vars, log>>
          ELSE /\ log' = Append(log, TxUpgrade(prog, buf,
                                     {DeployerKey(run.deployer)}, out))
               /\ IF out = "confirmed"
                    THEN /\ programdata' =
                                [programdata EXCEPT ![prog].code = buf]
                         /\ lagging' = Extend(lagging, prog,
                                              programdata[prog])
                         /\ buffers' = Remove(buffers, buf)
                         /\ confirmed' = confirmed \cup {<<"upgrade", prog>>}
                         /\ pc' = "upg_save"
                         /\ UNCHANGED <<result, run>>
                  ELSE /\ Return(Err("Failed to upgrade program"))
                       /\ UNCHANGED ledger_vars

\* upgrade_program_bpf_upgradeable: the upgrade transaction
UpgradeSwap(out) ==
    /\ pc = "upg_swap"
    /\ UNCHANGED <<cmd, start>>
    /\ UNCHANGED <<local_vars, clock>>
    /\ LET buf == run.buffer_pubkey
           prog == run.program_id
       IN IF out = "rpc_err"
            THEN /\ Return(Err("Failed to get latest blockhash"))
                 /\ UNCHANGED <<ledger_vars, log>>
          ELSE /\ log' = Append(log, TxUpgrade(prog, buf,
                                     {DeployerKey(run.deployer)}, out))
               /\ IF out = "confirmed"
                    THEN /\ programdata' =
                                [programdata EXCEPT ![prog].code = buf]
                         /\ lagging' = Extend(lagging, prog,
                                              programdata[prog])
                         /\ buffers' = Remove(buffers, buf)
                         /\ confirmed' = confirmed \cup {<<"upgrade", prog>>}
                         /\ pc' = "upg_save"
                         /\ UNCHANGED <<result, run>>
                  ELSE /\ Return(Err("Failed to upgrade program"))
                       /\ UNCHANGED ledger_vars

\* mutant: the upgrade also stamps the record's deployed_at
UpgradeSave_restamps(saved) ==
    /\ pc = "upg_save"
    /\ UNCHANGED <<cmd, start>>
    /\ UNCHANGED <<deployer, ledger_vars, clock>>
    /\ log' = Append(log, EvSave("save_state", saved))
    /\ IF saved
         THEN /\ state' =
                   [deployed_programs |->
                        [run.loaded.deployed_programs EXCEPT
                            ![Len(run.loaded.deployed_programs)] =
                                [@ EXCEPT !.last_upgraded = clock,
                                          !.deployed_at = clock]],
                    last_balance |-> run.balance]
              /\ Return(Ok)
       ELSE /\ Return(Err("Failed to write state"))
            /\ UNCHANGED state

\* mutant: the time of the upgrade is set on the first record
UpgradeSave_stamps_first(saved) ==
    /\ pc = "upg_save"
    /\ UNCHANGED <<cmd, start>>
    /\ UNCHANGED <<deployer, ledger_vars, clock>>
    /\ log' = Append(log, EvSave("save_state", saved))
    /\ IF saved
         THEN /\ state' =
                   [deployed_programs |->
                        [run.loaded.deployed_programs EXCEPT
                            ![1].last_upgraded = clock],
                    last_balance |-> run.balance]
              /\ Return(Ok)
       ELSE /\ Return(Err("Failed to write state"))
            /\ UNCHANGED state

\* mutant: the state is loaded again just before it is saved
UpgradeSave_reloads(saved) ==
    /\ pc = "upg_save"
    /\ UNCHANGED <<cmd, start>>
    /\ UNCHANGED <<deployer, ledger_vars, clock>>
    /\ log' = Append(log, EvSave("save_state", saved))
    /\ IF saved
         THEN /\ state' =
                   [deployed_programs |->
                        [state.deployed_programs EXCEPT
                            ![Len(run.loaded.deployed_programs)]
                                .last_upgraded = clock],
                    last_balance |-> run.balance]
              /\ Return(Ok)
       ELSE /\ Return(Err("Failed to write state"))
            /\ UNCHANGED state

\* upgrade::execute after upgrade_program_bpf_upgradeable returned Ok
UpgradeSave(saved) ==
    /\ pc = "upg_save"
    /\ UNCHANGED <<cmd, start>>
    /\ UNCHANGED <<deployer, ledger_vars, clock>>
    /\ log' = Append(log, EvSave("save_state", saved))
    /\ IF saved
         THEN /\ state' =
                   [deployed_programs |->
                        [run.loaded.deployed_programs EXCEPT
                            ![Len(run.loaded.deployed_programs)]
                                .last_upgraded = clock],
                    last_balance |-> run.balance]
              /\ Return(Ok)
       ELSE /\ Return(Err("Failed to write state"))
            /\ UNCHANGED state

\* ------------------------------------------------------------- rotate
\* mutant: the new keypair is generated and saved before the prompt
RotateStart_saves_before_prompt(confirm) ==
    /\ Begin("rotate")
    /\ UNCHANGED <<state, programdata, confirmed>>
    /\ IF deployer = None
         THEN /\ Return(Err("No private deployer found"))
              /\ UNCHANGED deployer
       ELSE IF ~confirm
         THEN /\ deployer' = NewDeployer(clock')
              /\ Return(Cancelled)
       ELSE /\ run' = [NoRun EXCEPT !.cmd = "rotate",
                        !.deployer = deployer, !.loaded = state,
                        !.new_deployer = NewDeployer(clock'),
                        !.index = 1]
            /\ pc' = IF state.deployed_programs # <<>>
                       THEN "rot_transfer" ELSE "rot_save"
            /\ result' = NoResult
            /\ UNCHANGED deployer

\* rotate::execute up to the loop over state.deployed_programs
RotateStart(confirm) ==
    /\ Begin("rotate")
    /\ UNCHANGED <<local_vars, programdata, confirmed>>
    /\ IF deployer = None
         THEN Return(Err("No private deployer found"))
       ELSE IF ~confirm
         THEN Return(Cancelled)
       ELSE /\ run' = [NoRun EXCEPT !.cmd = "rotate",
                        !.deployer = deployer, !.loaded = state,
                        !.new_deployer = NewDeployer(clock'),
                        !.index = 1]
            /\ pc' = IF state.deployed_programs # <<>>
                       THEN "rot_transfer" ELSE "rot_save"
            /\ result' = NoResult

\* mutant: a failed transfer is skipped and the loop goes on
RotateTransfer_skip_failed(out) ==
    /\ pc = "rot_transfer"
    /\ UNCHANGED <<cmd, start>>
    /\ UNCHANGED <<local_vars, buffers, confirmed, clock>>
    /\ LET prog == run.loaded.deployed_programs[run.index].program_id
       IN IF out = "rpc_err"
            THEN /\ Return(Err("Failed to get latest blockhash"))
                 /\ UNCHANGED <<programdata, lagging, log>>
          ELSE /\ log' = Append(log, TxSetAuthority(prog, run.new_deployer,
                                     {DeployerKey(run.deployer)}, out))
               /\ IF out = "confirmed"
                    THEN /\ programdata' = [programdata EXCEPT
                               ![prog].upgrade_authority_address =
                                   run.new_deployer]
                         /\ lagging' = Extend(lagging, prog,
                                              programdata[prog])
                  ELSE UNCHANGED <<programdata, lagging>>
               /\ run' = [run EXCEPT !.index = @ + 1]
               /\ pc' = IF run.index = Len(run.loaded.deployed_programs)
                          THEN "rot_save" ELSE "rot_transfer"
               /\ UNCHANGED result

\* rotate::execute: one turn of the loop, a call of
\* transfer_upgrade_authority
RotateTransfer(out) ==
    /\ pc = "rot_transfer"
    /\ UNCHANGED <<cmd, start>>
    /\ UNCHANGED <<local_vars, buffers, confirmed, clock>>
    /\ LET prog == run.loaded.deployed_programs[run.index].program_id
       IN IF out = "rpc_err"
            THEN /\ Return(Err("Failed to get latest blockhash"))
                 /\ UNCHANGED <<programdata, lagging, log>>
          ELSE /\ log' = Append(log, TxSetAuthority(prog, run.new_deployer,
                                     {DeployerKey(run.deployer)}, out))
               /\ IF out = "confirmed"
                    THEN /\ programdata' = [programdata EXCEPT
                               ![prog].upgrade_authority_address =
                                   run.new_deployer]
                         /\ lagging' = Extend(lagging, prog,
                                              programdata[prog])
                         /\ run' = [run EXCEPT !.index = @ + 1]
                         /\ pc' = IF run.index
                                       = Len(run.loaded.deployed_programs)
                                    THEN "rot_save" ELSE "rot_transfer"
                         /\ UNCHANGED result
                  ELSE /\ Return(Err("Failed to transfer authority"))
                       /\ UNCHANGED <<programdata, lagging>>

\* mutant: the new keypair is saved while transfers are still to be made
RotateSave_before_transfers(saved) ==
    /\ pc \in {"rot_transfer", "rot_save"}
    /\ UNCHANGED <<cmd, start>>
    /\ UNCHANGED <<state, ledger_vars, clock>>
    /\ log' = Append(log, EvSave("save_deployer", saved))
    /\ IF saved
         THEN /\ deployer' = run.new_deployer
              /\ Return(Ok)
       ELSE /\ Return(Err("Failed to save new deployer"))
            /\ UNCHANGED deployer

\* rotate::execute after the loop: config.save_deployer(&new_deployer)
RotateSave(saved) ==
    /\ pc = "rot_save"
    /\ UNCHANGED <<cmd, start>>
    /\ UNCHANGED <<state, ledger_vars, clock>>
    /\ log' = Append(log, EvSave("save_deployer", saved))
    /\ IF saved
         THEN /\ deployer' = run.new_deployer
              /\ Return(Ok)
       ELSE /\ Return(Err("Failed to save new deployer"))
            /\ UNCHANGED deployer

\* ------------------------------------------------------------ finalize
\* finalize::execute up to the call of finalize_program
FinalizeStart(program_id_str, confirm, confirmation) ==
    /\ Begin("finalize")
    /\ UNCHANGED <<local_vars, programdata, confirmed>>
    /\ IF deployer = None
         THEN Return(Err("No private deployer found"))
       ELSE IF program_id_str = InvalidProg
         THEN Return(Err("Invalid program ID"))
       ELSE IF ~confirm
         THEN Return(Cancelled)
       ELSE IF confirmation # program_id_str
         THEN Return(Err("Program ID mismatch. Finalization cancelled."))
       ELSE /\ run' = [NoRun EXCEPT !.cmd = "finalize",
                        !.deployer = deployer, !.loaded = state,
                        !.program_id = program_id_str]
            /\ pc' = "fin_verify"
            /\ result' = NoResult

\* finalize_program: the call of verify_current_authority
FinalizeVerify(account) ==
    /\ pc = "fin_verify"
    /\ UNCHANGED <<cmd, start>>
    /\ UNCHANGED <<local_vars, ledger_vars, clock>>
    /\ LET r == verify_current_authority(account, run.deployer)
       IN /\ log' = Append(log, EvVerify(run.program_id, run.deployer,
                                    account, r))
          /\ IF r = Ok
               THEN /\ pc' = "fin_set_authority"
                    /\ UNCHANGED <<result, run>>
             ELSE Return(r)

\* finalize_program: the set-authority(None) transaction
FinalizeSetAuthority(out) ==
    /\ pc = "fin_set_authority"
    /\ UNCHANGED <<cmd, start>>
    /\ UNCHANGED <<local_vars, buffers, confirmed, clock>>
    /\ LET prog == run.program_id
       IN IF out = "rpc_err"
            THEN /\ Return(Err("Failed to get latest blockhash"))
                 /\ UNCHANGED <<programdata, lagging, log>>
          ELSE /\ log' = Append(log, TxSetAuthority(prog, None,
                                     {DeployerKey(run.deployer)}, out))
               /\ IF out = "confirmed"
                    THEN /\ programdata' = [programdata EXCEPT
                               ![prog].upgrade_authority_address = None]
                         /\ lagging' = Extend(lagging, prog,
                                              programdata[prog])
                         /\ pc' = "fin_verify_immutable"
                         /\ UNCHANGED <<result, run>>
                  ELSE /\ Return(Err("Failed to finalize program"))
                       /\ UNCHANGED <<programdata, lagging>>

\* finalize_program: the call of verify_immutable
FinalizeVerifyImmutable(account) ==
    /\ pc = "fin_verify_immutable"
    /\ UNCHANGED <<cmd, start>>
    /\ UNCHANGED <<local_vars, ledger_vars, clock>>
    /\ LET r == verify_immutable(account)
       IN /\ log' = Append(log, EvVerifyImmutable(run.program_id, account,
                                    r))
          /\ Return(r)

\* ---------------------------------------------------------------- next
\* what the user may type as a program id
ProgramIdStrs == {InvalidProg, MissingProg} \cup DOMAIN programdata

Files == Lens \cup {NoFile}
BalanceReads == Balances \cup {RpcErr}
Calls(accepted) == {"rpc_err"} \cup TxOutcomes(accepted)

Next ==
    \/ \E f \in Files, c \in BOOLEAN, b \in BalanceReads :
          DeployStart(f, c, b)
    \/ \E out \in Calls(TRUE) : DeployCreateBuffer(out)
    \/ \E out \in Calls(run.buffer_pubkey \in DOMAIN buffers) :
          DeployWriteChunk(out)
    \/ \E out \in Calls(run.buffer_pubkey \in DOMAIN buffers) :
          DeployActivate(out)
    \/ \E saved \in BOOLEAN : DeploySave(saved)
    \/ DeployStop
    \/ \E f \in Files, c \in BOOLEAN, b \in BalanceReads :
          UpgradeStart(f, c, b)
    \/ \E account \in GetAccount(run.program_id) : UpgradeVerify(account)
    \/ \E out \in Calls(TRUE) : UpgradeCreateBuffer(out)
    \/ \E out \in Calls(run.buffer_pubkey \in DOMAIN buffers) :
          UpgradeWriteChunk(out)
    \/ \E out \in Calls(/\ run.buffer_pubkey \in DOMAIN buffers
                        /\ AuthorityIs(run.program_id, run.deployer)) :
          UpgradeSwap(out)
    \/ \E saved \in BOOLEAN : UpgradeSave(saved)
    \/ \E c \in BOOLEAN : RotateStart(c)
    \/ \E out \in Calls(pc = "rot_transfer" /\ AuthorityIs(
              run.loaded.deployed_programs[run.index].program_id,
              run.deployer)) :
          RotateTransfer(out)
    \/ \E saved \in BOOLEAN : RotateSave(saved)
    \/ \E p \in ProgramIdStrs, c \in BOOLEAN :
          \E t \in {p, InvalidProg} : FinalizeStart(p, c, t)
    \/ \E account \in GetAccount(run.program_id) : FinalizeVerify(account)
    \/ \E out \in Calls(AuthorityIs(run.program_id, run.deployer)) :
          FinalizeSetAuthority(out)
    \/ \E account \in GetAccount(run.program_id) :
          FinalizeVerifyImmutable(account)

Spec == Init /\ [][Next]_vars

\* ------------------------------------------------ the uploader by itself
\* payload lengths for write_program_data_to_buffer taken by itself: every
\* length up to MaxChunks chunks and a byte, and a payload of 50,000 bytes
UploadLens == 0..(MaxChunks * chunk_size + 1) \cup {50000}

\* the state in which write_program_data_to_buffer is entered: the first
\* deploy of a project, or the upgrade that follows a deploy of an empty
\* payload, has just had the buffer for a payload of length len created
UploaderInit ==
    \E len \in UploadLens, command \in {"deploy", "upgrade"} :
       LET t == IF command = "deploy" THEN 1 ELSE 2
           prog == NewProgram(1)
           buf == NewBuffer(t)
           deployed ==
               [deployed_programs |->
                    <<[program_id |-> prog, deployed_at |-> 1,
                       last_upgraded |-> None]>>,
                last_balance |-> MIN_DEPLOY_BALANCE]
           create ==
               TxCreateBuffer(buf, size_of_buffer(len),
                   {DeployerKey(InitKey), BufferKey(buf)}, "confirmed")
       IN /\ deployer = InitKey
          /\ buffers = (buf :> [size |-> size_of_buffer(len),
                                written |-> <<>>])
          /\ lagging = <<>>
          /\ clock = t
          /\ cmd = command
          /\ result = NoResult
          /\ IF command = "deploy"
               THEN /\ state = [deployed_programs |-> <<>>,
                                last_balance |-> 0]
                    /\ programdata =
                          (ForeignProg :> ProgramData(ForeignKey, 0))
                    /\ confirmed = {}
                    /\ run = [NoRun EXCEPT !.cmd = "deploy",
                                !.deployer = InitKey,
                                !.balance = MIN_DEPLOY_BALANCE,
                                !.len = len, !.program_id = prog,
                                !.buffer_pubkey = buf]
                    /\ log = <<create>>
                    /\ pc = IF chunks_count(len) = 0
                              THEN "dep_activate" ELSE "dep_write"
             ELSE /\ state = deployed
                  /\ programdata =
                        Extend((ForeignProg :> ProgramData(ForeignKey, 0)),
                               prog, ProgramData(InitKey, NewBuffer(1)))
                  /\ confirmed = {<<"deploy", prog>>}
                  /\ run = [NoRun EXCEPT !.cmd = "upgrade",
                              !.deployer = InitKey, !.loaded = deployed,
                              !.balance = MIN_UPGRADE_BALANCE,
                              !.len = len, !.program_id = prog,
                              !.buffer_pubkey = buf]
                  /\ log = <<EvVerify(prog, InitKey,
                                 ProgramData(InitKey, NewBuffer(1)), Ok),
                             create>>
                  /\ pc = IF chunks_count(len) = 0
                            THEN "upg_swap" ELSE "upg_write"
          /\ start = [deployer |-> deployer, state |-> state,
                      programdata |-> programdata]

\* the turns of the loop of write_program_data_to_buffer
UploaderNext ==
    \/ \E out \in Calls(run.buffer_pubkey \in DOMAIN buffers) :
          DeployWriteChunk(out)
    \/ \E out \in Calls(run.buffer_pubkey \in DOMAIN buffers) :
          UpgradeWriteChunk(out)

UploaderSpec == UploaderInit /\ [][UploaderNext]_vars

\* ------------------------------------- two invocations in one directory
\* the program keypair and the buffer keypair that a second invocation
\* generates: keys that no command of the first invocation's sequence has
OtherProgram == NewProgram(MaxCmds + 1)
OtherBuffer == NewBuffer(MaxCmds + 1)

\* an event of the second invocation in the joint record of the two
OfOther(e) == e @@ [invocation |-> 2]
IsOfOther(e) == "invocation" \in DOMAIN e

\* the second invocation has sent its activation transaction
OtherActivated == \E i \in 1..Len(log) : IsOfOther(log[i])

\* the second invocation has ended: its activation failed or it saved
OtherEnded ==
    \E i \in 1..Len(log) :
       /\ IsOfOther(log[i])
       /\ \/ log[i].kind = "save_state"
          \/ log[i].kind = "deploy" /\ log[i].out # "confirmed"

\* an upgrade, the second command of a project with one deployed program,
\* has loaded the state, passed its local checks and read its balance, while
\* a deploy started by another process in the same directory is uploading
OverlapInit ==
    \E len \in Lens, balance \in {MIN_UPGRADE_BALANCE, MIN_DEPLOY_BALANCE} :
       LET prog == NewProgram(1)
           deployed ==
               [deployed_programs |->
                    <<[program_id |-> prog, deployed_at |-> 1,
                       last_upgraded |-> None]>>,
                last_balance |-> MIN_DEPLOY_BALANCE]
       IN /\ deployer = InitKey
          /\ state = deployed
          /\ programdata =
                Extend((ForeignProg :> ProgramData(ForeignKey, 0)),
                       prog, ProgramData(InitKey, NewBuffer(1)))
          /\ buffers = <<>>
          /\ lagging = <<>>
          /\ confirmed = {<<"deploy", prog>>}
          /\ clock = 2
          /\ cmd = "upgrade"
          /\ start = [deployer |-> deployer, state |-> state,
                      programdata |-> programdata]
          /\ pc = "upg_verify"
          /\ run = [NoRun EXCEPT !.cmd = "upgrade",
                      !.deployer = InitKey, !.loaded = deployed,
                      !.balance = balance, !.len = len,
                      !.program_id = prog]
          /\ log = <<>>
          /\ result = NoResult

\* the activation transaction of the deploy of the other process: the ledger
\* is the one both invocations talk to
OtherDeployActivate(len, out) ==
    /\ ~OtherActivated
    /\ log' = Append(log, OfOther(TxDeploy(OtherProgram, OtherBuffer,
                   size_of_programdata(len), len * 2,
                   {DeployerKey(deployer), ProgramKey(OtherProgram)}, out)))
    /\ IF out = "confirmed"
         THEN /\ programdata' = Extend(programdata, OtherProgram,
                      ProgramData(deployer, OtherBuffer))
              /\ confirmed' = confirmed \cup {<<"deploy", OtherProgram>>}
       ELSE UNCHANGED <<programdata, confirmed>>
    /\ UNCHANGED <<local_vars, buffers, lagging, clock, cmd, start, pc, run,
                   result>>

\* the end of deploy::execute in the other process: load_state, push of the
\* new record, save_state, on the file of the same directory
OtherDeploySave(saved) ==
    /\ OtherActivated
    /\ ~OtherEnded
    /\ log' = Append(log, OfOther(EvSave("save_state", saved)))
    /\ IF saved
         THEN state' = [deployed_programs |->
                            Append(state.deployed_programs,
                                [program_id |-> OtherProgram,
                                 deployed_at |-> clock,
                                 last_upgraded |-> None]),
                        last_balance |-> MIN_DEPLOY_BALANCE]
       ELSE UNCHANGED state
    /\ UNCHANGED <<deployer, ledger_vars, clock, cmd, start, pc, run, result>>

\* the steps of the upgrade, and between any two of them those of the deploy
OverlapNext ==
    \/ \E account \in GetAccount(run.program_id) : UpgradeVerify(account)
    \/ \E out \in Calls(TRUE) : UpgradeCreateBuffer(out)
    \/ \E out \in Calls(run.buffer_pubkey \in DOMAIN buffers) :
          UpgradeWriteChunk(out)
    \/ \E out \in Calls(/\ run.buffer_pubkey \in DOMAIN buffers
                        /\ AuthorityIs(run.program_id, run.deployer)) :
          UpgradeSwap(out)
    \/ \E saved \in BOOLEAN : UpgradeSave(saved)
    \/ \E len \in Lens, out \in TxOutcomes(TRUE) :
          OtherDeployActivate(len, out)
    \/ \E saved \in BOOLEAN : OtherDeploySave(saved)

OverlapSpec == OverlapInit /\ [][OverlapNext]_vars

\* ------------------------------------------- a project from its beginning
\* ProjectState::default(), which load_state gives when there is no file
EmptyState == [deployed_programs |-> <<>>, last_balance |-> 0]

\* the steps of init::execute after the prompt, each of which can fail
InitOutcomes ==
    {"Failed to save deployer", "Failed to update .gitignore",
     "Failed to download circuit files", "Failed to write state", "Ok"}

\* mutant: init does not look whether a keypair exists
InitExecute_overwrites(confirm, out) ==
    /\ Begin("init")
    /\ UNCHANGED <<programdata, confirmed>>
    /\ IF ~confirm
         THEN /\ Return(Cancelled)
              /\ UNCHANGED local_vars
       ELSE IF out = "Failed to save deployer"
         THEN /\ Return(Err(out))
              /\ UNCHANGED local_vars
       ELSE /\ deployer' = NewDeployer(clock')
            /\ IF out = "Ok"
                 THEN /\ state' = EmptyState
                      /\ Return(Ok)
               ELSE /\ Return(Err(out))
                    /\ UNCHANGED state

\* init::execute: the keypair is generated and saved, then .gitignore, the
\* circuit files and an empty Project State are written
InitExecute(confirm, out) ==
    /\ Begin("init")
    /\ UNCHANGED <<programdata, confirmed>>
    /\ IF deployer # None
         THEN /\ Return(Err("Private deployer already exists"))
              /\ UNCHANGED local_vars
       ELSE IF ~confirm
         THEN /\ Return(Cancelled)
              /\ UNCHANGED local_vars
       ELSE IF out = "Failed to save deployer"
         THEN /\ Return(Err(out))
              /\ UNCHANGED local_vars
       ELSE /\ deployer' = NewDeployer(clock')
            /\ IF out = "Ok"
                 THEN /\ state' = EmptyState
                      /\ Return(Ok)
               ELSE /\ Return(Err(out))
                    /\ UNCHANGED state

\* the steps of fund::execute after the prompt, each of which can fail
FundOutcomes ==
    {"Failed to load funding wallet", "Failed to shield funds",
     "Failed to unshield funds", "Ok"}

\* mutant: fund does not look whether a keypair exists
FundExecute_unchecked(confirm, out) ==
    /\ Begin("fund")
    /\ UNCHANGED <<local_vars, programdata, confirmed>>
    /\ IF ~confirm
         THEN Return(Cancelled)
       ELSE IF out = "Ok"
         THEN Return(Ok)
       ELSE Return(Err(out))

\* fund::execute: lamports reach the deployer's account through the privacy
\* pool; no file of the project is written and no program is touched
FundExecute(confirm, out) ==
    /\ Begin("fund")
    /\ UNCHANGED <<local_vars, programdata, confirmed>>
    /\ IF deployer = None
         THEN Return(Err("No private deployer found"))
       ELSE IF ~confirm
         THEN Return(Cancelled)
       ELSE IF out = "Ok"
         THEN Return(Ok)
       ELSE Return(Err(out))

\* a directory in which init has not been run: no keypair, no state file
SetupInit ==
    /\ deployer = None
    /\ state = EmptyState
    /\ programdata = (ForeignProg :> ProgramData(ForeignKey, 0))
    /\ buffers = <<>>
    /\ lagging = <<>>
    /\ confirmed = {}
    /\ clock = 0
    /\ cmd = "none"
    /\ start = [deployer |-> deployer, state |-> state,
                programdata |-> programdata]
    /\ pc = "idle"
    /\ run = NoRun
    /\ log = <<>>
    /\ result = NoResult

\* every command of main, init and fund among them
SetupNext ==
    \/ \E c \in BOOLEAN, out \in InitOutcomes : InitExecute(c, out)
    \/ \E c \in BOOLEAN, out \in FundOutcomes : FundExecute(c, out)
    \/ Next

SetupSpec == SetupInit /\ [][SetupNext]_vars

\* =================================================================
\* Properties
\* =================================================================
Records == state.deployed_programs
StartRecords == start.state.deployed_programs
IsTx(e) ==
    e.kind \in {"create_buffer", "write", "deploy", "upgrade",
                "set_authority"}
IdleAfter(command) == cmd = command /\ pc = "idle"

\* C1: saved Project State claims nothing the ledger has not confirmed: every
\* record is of a program whose activation transaction was confirmed, a
\* record with last_upgraded set is of a program for which an upgrade
\* transaction was confirmed, and a save of the state comes straight after
\* the confirmed activation or upgrade transaction of its command.
C1_StateOnlyClaimsConfirmed ==
    /\ \A i \in 1..Len(Records) :
          /\ <<"deploy", Records[i].program_id>> \in confirmed
          /\ Records[i].last_upgraded # None
                => <<"upgrade", Records[i].program_id>> \in confirmed
    /\ \A i \in 1..Len(log) :
          log[i].kind = "save_state"
             => /\ i > 1
                /\ log[i - 1].kind \in {"deploy", "upgrade"}
                /\ log[i - 1].out = "confirmed"

\* C1 witness: an upgrade has been saved into the record of a deployed program
C1_Witness ==
    /\ IdleAfter("upgrade")
    /\ result = Ok
    /\ Records # <<>>
    /\ Last(Records).last_upgraded # None

\* C2: an upgrade of a program whose on-chain authority is not the local key
\* (another key, or none) ends in the verifier: no transaction is submitted,
\* no buffer exists and the ledger is as it was when the command started.
C2_UpgradeAbortsOnMismatch ==
    (/\ cmd = "upgrade"
     /\ pc # "idle" \/ log # <<>>
     /\ LET prog == Last(StartRecords).program_id
        IN \/ prog \notin DOMAIN start.programdata
           \/ start.programdata[prog].upgrade_authority_address
                 # start.deployer)
       => /\ pc \in {"upg_verify", "idle"}
          /\ \A i \in 1..Len(log) : ~IsTx(log[i])
          /\ programdata = start.programdata
          /\ buffers = <<>>
          /\ pc = "idle" => result.ret = "Err"

\* C2 witness: an upgrade was refused because the program is under another key
C2_Witness ==
    /\ IdleAfter("upgrade")
    /\ Len(log) = 1
    /\ log[1].kind = "verify"
    /\ log[1].account.kind = "ProgramData"
    /\ log[1].account.upgrade_authority_address \notin {None, log[1].expected}
    /\ result = Err("Upgrade authority mismatch")

\* keys that can exist within the bounds
Keys == 1..(InitKey + MaxCmds)
IsMismatch(r) ==
    r.step \in {"Upgrade authority mismatch", "Authority mismatch"}
IsImmutable(r) ==
    r.step \in {"Program is not upgradeable (authority set to None)",
                "Program is already immutable"}

\* C3: on a decoded Program-Data record the verifier succeeds exactly when
\* the authority is present and is the expected key; another key and no key
\* give two different errors; upgrade's and finalize's verifier agree; and
\* every verification a command made came out so.
C3_VerifierIff ==
    /\ \A authority \in Keys \cup {None}, expected \in Keys :
          LET account == ProgramData(authority, 0)
              u == verify_upgrade_authority(account, expected)
              f == verify_current_authority(account, expected)
          IN /\ (u = Ok) <=> (authority # None /\ authority = expected)
             /\ (f = Ok) <=> (authority # None /\ authority = expected)
             /\ IsMismatch(u) <=> (authority # None /\ authority # expected)
             /\ IsMismatch(f) <=> (authority # None /\ authority # expected)
             /\ IsImmutable(u) <=> authority = None
             /\ IsImmutable(f) <=> authority = None
             /\ ~(IsMismatch(u) /\ IsImmutable(u))
             /\ ~(IsMismatch(f) /\ IsImmutable(f))
    /\ \A i \in 1..Len(log) :
          (log[i].kind = "verify" /\ log[i].account.kind = "ProgramData")
             => LET authority == log[i].account.upgrade_authority_address
                IN /\ (log[i].out = Ok)
                         <=> (authority # None
                                /\ authority = log[i].expected)
                   /\ IsMismatch(log[i].out)
                         <=> (authority # None
                                /\ authority # log[i].expected)
                   /\ IsImmutable(log[i].out) <=> authority = None

\* C3 witness: finalize's verifier refused a program that is under another key
C3_Witness ==
    /\ IdleAfter("finalize")
    /\ Len(log) = 1
    /\ log[1].kind = "verify"
    /\ log[1].account.kind = "ProgramData"
    /\ log[1].account.upgrade_authority_address \notin {None, log[1].expected}
    /\ result = Err("Authority mismatch")

\* C4: every upgrade and every set-authority transaction of a command comes
\* after a verification of the same program that succeeded in that command.
C4_VerifiedBeforeMutation ==
    \A i \in 1..Len(log) :
       log[i].kind \in {"upgrade", "set_authority"}
          => \E j \in 1..(i - 1) :
                /\ log[j].kind = "verify"
                /\ log[j].prog = log[i].prog
                /\ log[j].out = Ok

\* the position in the records of the transfer that log entry i made
TransferOf(i) == StartRecords[i].program_id
Authority(prog) == programdata[prog].upgrade_authority_address
StartAuthority(prog) == start.programdata[prog].upgrade_authority_address

\* C5: while rotate runs and after it, the persisted keypair is the old one
\* unless the set-authority transaction of every record, in order, was
\* confirmed for the new key and the save came after them (with no records,
\* the save is all there is).
C5_KeyAdoptedAfterAllTransfers ==
    cmd = "rotate"
       => \/ deployer = start.deployer
          \/ LET n == Len(StartRecords)
             IN /\ Len(log) = n + 1
                /\ \A i \in 1..n :
                      /\ log[i].kind = "set_authority"
                      /\ log[i].prog = TransferOf(i)
                      /\ log[i].new_authority = deployer
                      /\ log[i].out = "confirmed"
                /\ log[n + 1] = EvSave("save_deployer", TRUE)
                /\ pc = "idle"

\* C5 witness: rotate adopted the new key after transferring two programs
C5_Witness ==
    /\ IdleAfter("rotate")
    /\ result = Ok
    /\ deployer # start.deployer
    /\ Len(StartRecords) = 2
    /\ \A i \in 1..2 : Authority(TransferOf(i)) = deployer

\* C6: when the set-authority transaction of record k fails, rotate stops:
\* it returns an error, the persisted keypair is the old one, records 1..k-1
\* are under the new key on the ledger and records k..n are as they were
\* when the command started, no transaction having been sent for k+1..n.
C6_RotateStopsAtFailure ==
    (/\ cmd = "rotate"
     /\ log # <<>>
     /\ Last(log).kind = "set_authority"
     /\ Last(log).out = "failed")
       => LET k == Len(log)
              n == Len(StartRecords)
          IN /\ pc = "idle"
             /\ result = Err("Failed to transfer authority")
             /\ deployer = start.deployer
             /\ k <= n
             /\ \A j \in 1..k : log[j].prog = TransferOf(j)
             /\ \A j \in 1..(k - 1) :
                   /\ log[j].out = "confirmed"
                   /\ Authority(TransferOf(j)) = log[j].new_authority
                   /\ log[j].new_authority # start.deployer
             /\ \A j \in k..n :
                   Authority(TransferOf(j)) = StartAuthority(TransferOf(j))

\* C6 witness: the second of two transfers failed, the first program is
\* under the new key and the second still under the old, persisted key
C6_Witness ==
    /\ IdleAfter("rotate")
    /\ Len(StartRecords) = 2
    /\ Len(log) = 2
    /\ log[2].kind = "set_authority"
    /\ log[2].out = "failed"
    /\ Authority(TransferOf(1)) = log[1].new_authority
    /\ Authority(TransferOf(2)) = deployer
    /\ deployer = start.deployer

\* a rotate before this one stopped part-way: some tracked program is under
\* a key that is not the persisted one, and some is under the persisted one
StartedAfterPartialRotate ==
    /\ \E i \in 1..Len(StartRecords) :
          StartAuthority(TransferOf(i)) \notin {None, start.deployer}
    /\ \E i \in 1..Len(StartRecords) :
          StartAuthority(TransferOf(i)) = start.deployer

\* in this command every call went through and the ledger confirmed every
\* transaction whose signer was the authority
LedgerAcceptedAllAuthorised ==
    /\ result.step \notin {"Failed to get latest blockhash",
                           "Failed to save new deployer"}
    /\ \A i \in 1..Len(log) :
          (log[i].kind = "set_authority" /\ log[i].out = "failed")
             => DeployerKey(Authority(log[i].prog)) \notin log[i].signers

\* C7: a rotate run after one that stopped part-way, started with the same
\* persisted key and with the ledger accepting every authorised transaction,
\* succeeds and leaves the persisted key as the authority of every tracked
\* program.
C7_RotateRerunCompletes ==
    (/\ IdleAfter("rotate")
     /\ result.ret \in {"Ok", "Err"}
     /\ StartedAfterPartialRotate
     /\ LedgerAcceptedAllAuthorised)
       => /\ result = Ok
          /\ \A i \in 1..Len(Records) :
                Authority(Records[i].program_id) = deployer

\* C8: finalize returns Ok only after the set-authority(None) transaction
\* was confirmed and the read that followed decoded an absent authority;
\* whenever that read decodes a present authority, finalize returns an error.
C8_FinalizeReverifies ==
    /\ (IdleAfter("finalize") /\ result = Ok)
          => /\ Len(log) = 3
             /\ log[2].kind = "set_authority"
             /\ log[2].new_authority = None
             /\ log[2].out = "confirmed"
             /\ log[3].kind = "verify_immutable"
             /\ log[3].prog = log[2].prog
             /\ log[3].account.kind = "ProgramData"
             /\ log[3].account.upgrade_authority_address = None
    /\ \A i \in 1..Len(log) :
          (/\ log[i].kind = "verify_immutable"
           /\ log[i].account.kind = "ProgramData"
           /\ log[i].account.upgrade_authority_address # None)
             => /\ pc = "idle"
                /\ result = Err("Finalization failed: authority is still set")

\* C8 witness: the transaction was confirmed, the read after it still showed
\* the authority, and finalize returned the error
C8_Witness ==
    /\ IdleAfter("finalize")
    /\ Len(log) = 3
    /\ log[2].out = "confirmed"
    /\ log[3].kind = "verify_immutable"
    /\ log[3].account.upgrade_authority_address # None
    /\ result.ret = "Err"

\* C9: finalize of a program whose authority is absent sends no
\* set-authority transaction and never returns Ok; when the verifier decodes
\* the account, it is the only remote call and the error is the
\* already-immutable one.
C9_FinalizeRejectsImmutable ==
    (/\ cmd = "finalize"
     /\ log # <<>>
     /\ log[1].prog \in DOMAIN start.programdata
     /\ StartAuthority(log[1].prog) = None)
       => /\ \A i \in 1..Len(log) : log[i].kind # "set_authority"
          /\ pc = "idle"
          /\ result.ret = "Err"
          /\ log[1].account.kind = "ProgramData"
                => /\ Len(log) = 1
                   /\ result = Err("Program is already immutable")

\* C9 witness: finalize was run on a finalized program and was refused as
\* already immutable
C9_Witness ==
    /\ IdleAfter("finalize")
    /\ Len(log) = 1
    /\ log[1].prog \in DOMAIN start.programdata
    /\ StartAuthority(log[1].prog) = None
    /\ log[1].account.kind = "ProgramData"
    /\ result = Err("Program is already immutable")

\* the payload length behind a buffer-creation transaction
PayloadLen(create) == create.size - BUFFER_METADATA_SIZE

RECURSIVE WrittenBytes(_, _)
\* the bytes written by the confirmed write transactions log[2..i]
WrittenBytes(l, i) ==
    IF i < 2 THEN 0 ELSE l[i].len + WrittenBytes(l, i - 1)

\* the deploy phase a position stands for
DeployPhase(p) ==
    CASE p = "dep_create_buffer" -> 0
      [] p = "dep_write" -> 1
      [] p = "dep_activate" -> 2
      [] p = "dep_save" -> 3
      [] OTHER -> 4

\* in a deploy the buffer-creation transaction is the first one; a write is
\* sent only after the creation and all earlier writes were confirmed, at the
\* next offset; the activation is sent only after the creation and the writes
\* of the whole payload were confirmed; and the position of the command
\* tells how far the ledger is
DeployLogInOrder ==
    cmd = "deploy"
       => /\ \A i \in 1..Len(log) :
                /\ log[i].kind = "create_buffer" <=> i = 1
                /\ log[i].kind = "write"
                      => /\ \A j \in 1..(i - 1) : log[j].out = "confirmed"
                         /\ \A j \in 2..(i - 1) : log[j].kind = "write"
                         /\ log[i].buf = log[1].buf
                         /\ log[i].offset = (i - 2) * chunk_size
                         /\ log[i].offset = WrittenBytes(log, i - 1)
                         /\ log[i].offset < PayloadLen(log[1])
                /\ log[i].kind = "deploy"
                      => /\ \A j \in 1..(i - 1) : log[j].out = "confirmed"
                         /\ \A j \in 2..(i - 1) : log[j].kind = "write"
                         /\ log[i].buf = log[1].buf
                         /\ WrittenBytes(log, i - 1) = PayloadLen(log[1])
                /\ log[i].kind = "save_state"
                      => /\ log[i - 1].kind = "deploy"
                         /\ log[i - 1].out = "confirmed"
          /\ pc = "dep_create_buffer" => log = <<>>
          /\ pc = "dep_write"
                => /\ Last(log).kind \in {"create_buffer", "write"}
                   /\ Last(log).out = "confirmed"
                   /\ WrittenBytes(log, Len(log)) < PayloadLen(log[1])
          /\ pc = "dep_activate"
                => /\ Last(log).kind \in {"create_buffer", "write"}
                   /\ Last(log).out = "confirmed"
                   /\ WrittenBytes(log, Len(log)) = PayloadLen(log[1])
          /\ pc = "dep_save"
                => /\ Last(log).kind = "deploy"
                   /\ Last(log).out = "confirmed"

\* a step of a deploy never goes back to an earlier phase, stays in a phase
\* only while writing, and never passes over the activation
DeployStepForward ==
    (cmd = "deploy" /\ pc # "idle" /\ pc' # "idle")
       => /\ DeployPhase(pc') >= DeployPhase(pc)
          /\ DeployPhase(pc') > DeployPhase(pc) \/ pc = "dep_write"
          /\ DeployPhase(pc) < 2 => DeployPhase(pc') <= 2

\* C10: deploy moves only forward through buffer creation, writing and
\* activation: the first write is sent only after the buffer-creation
\* transaction was confirmed, the activation only after the writes of every
\* chunk of the payload were confirmed, and no phase is passed over or
\* entered again.
C10_DeployForwardOnly == []DeployLogInOrder /\ [][DeployStepForward]_vars

\* C10 witness: a payload of two chunks went through creation, two writes,
\* activation and the save
C10_Witness ==
    /\ IdleAfter("deploy")
    /\ result = Ok
    /\ Len(log) = 5
    /\ log[2].kind = "write"
    /\ log[3].kind = "write"
    /\ log[3].len < chunk_size
    /\ log[4].kind = "deploy"

RECURSIVE UpgradeWrittenBytes(_, _)
\* the bytes written by the confirmed write transactions log[3..i] of an
\* upgrade, whose log starts with the verification and the buffer creation
UpgradeWrittenBytes(l, i) ==
    IF i < 3 THEN 0 ELSE l[i].len + UpgradeWrittenBytes(l, i - 1)

\* the upgrade phase a position stands for: before the verification, then
\* AuthorityVerified, BufferCreated, DataWritten, Swapped
UpgradePhase(p) ==
    CASE p = "upg_verify" -> 0
      [] p = "upg_create_buffer" -> 1
      [] p = "upg_write" -> 2
      [] p = "upg_swap" -> 3
      [] p = "upg_save" -> 4
      [] OTHER -> 5

\* in an upgrade the verification is the first remote call and the
\* buffer-creation transaction the second, sent only after the verifier
\* succeeded; a write is sent only after the creation and all earlier writes
\* were confirmed, at the next offset; the upgrade transaction is sent only
\* after the writes of the whole payload were confirmed; and the position of
\* the command tells how far the ledger is
UpgradeLogInOrder ==
    cmd = "upgrade"
       => /\ \A i \in 1..Len(log) :
                /\ log[i].kind = "verify" <=> i = 1
                /\ log[i].kind = "create_buffer" <=> i = 2
                /\ i >= 2 => log[1].out = Ok
                /\ log[i].kind = "write"
                      => /\ \A j \in 2..(i - 1) : log[j].out = "confirmed"
                         /\ \A j \in 3..(i - 1) : log[j].kind = "write"
                         /\ log[i].buf = log[2].buf
                         /\ log[i].offset = (i - 3) * chunk_size
                         /\ log[i].offset = UpgradeWrittenBytes(log, i - 1)
                         /\ log[i].offset < PayloadLen(log[2])
                /\ log[i].kind = "upgrade"
                      => /\ \A j \in 2..(i - 1) : log[j].out = "confirmed"
                         /\ \A j \in 3..(i - 1) : log[j].kind = "write"
                         /\ log[i].buf = log[2].buf
                         /\ UpgradeWrittenBytes(log, i - 1)
                               = PayloadLen(log[2])
                /\ log[i].kind = "save_state"
                      => /\ log[i - 1].kind = "upgrade"
                         /\ log[i - 1].out = "confirmed"
          /\ pc = "upg_verify" => log = <<>>
          /\ pc = "upg_create_buffer" => Len(log) = 1
          /\ pc = "upg_write"
                => /\ Last(log).kind \in {"create_buffer", "write"}
                   /\ Last(log).out = "confirmed"
                   /\ UpgradeWrittenBytes(log, Len(log)) < PayloadLen(log[2])
          /\ pc = "upg_swap"
                => /\ Last(log).kind \in {"create_buffer", "write"}
                   /\ Last(log).out = "confirmed"
                   /\ UpgradeWrittenBytes(log, Len(log)) = PayloadLen(log[2])
          /\ pc = "upg_save"
                => /\ Last(log).kind = "upgrade"
                   /\ Last(log).out = "confirmed"

\* a step of an upgrade never goes back to an earlier phase, stays in a
\* phase only while writing, and passes over the writing only when the
\* payload is empty
UpgradeStepForward ==
    (cmd = "upgrade" /\ pc # "idle" /\ pc' # "idle")
       => /\ UpgradePhase(pc') >= UpgradePhase(pc)
          /\ UpgradePhase(pc') > UpgradePhase(pc) \/ pc = "upg_write"
          /\ UpgradePhase(pc') <= UpgradePhase(pc) + 1
                \/ (pc = "upg_create_buffer" /\ pc' = "upg_swap"
                      /\ run.len = 0)

\* C11: upgrade moves only forward through AuthorityVerified, BufferCreated,
\* DataWritten and Swapped: the buffer is created only after the verifier
\* succeeded, and the upgrade transaction is sent only after the writes of
\* every chunk of the new payload were confirmed.
C11_UpgradeForwardOnly == []UpgradeLogInOrder /\ [][UpgradeStepForward]_vars

\* C11 witness: a payload of two chunks went through the verification, the
\* creation, two writes, the upgrade transaction and the save
C11_Witness ==
    /\ IdleAfter("upgrade")
    /\ result = Ok
    /\ Len(log) = 6
    /\ log[1].out = Ok
    /\ log[3].kind = "write"
    /\ log[4].kind = "write"
    /\ log[4].len < chunk_size
    /\ log[5].kind = "upgrade"

\* ceil(len / size), found by search and not by the arithmetic of the code
Ceil(len, size) ==
    CHOOSE n \in 0..(len \div size + 1) :
       /\ n * size >= len
       /\ n = 0 \/ (n - 1) * size < len

\* the write transactions of the log, in the order they were submitted
Writes(l) == SelectSeq(l, LAMBDA e : e.kind = "write")

\* the buffer-creation transaction of a deploy or upgrade that has one
CreateOf(l) == IF cmd = "deploy" THEN l[1] ELSE l[2]

RECURSIVE SliceStart(_, _)
\* where in the payload the slice of write i starts: chunks() yields
\* consecutive slices, so after the bytes of the slices before it
SliceStart(w, i) ==
    IF i <= 1 THEN 0 ELSE SliceStart(w, i - 1) + w[i - 1].len

\* every write transaction was submitted and the loop has ended
UploadComplete == pc \in {"dep_activate", "upg_swap"}

\* the buffer holds the payload: every position of the payload was written
\* by exactly one piece, with the byte of the payload at that position
Reconstructs(pieces, len) ==
    /\ \A p \in 0..(len - 1) :
          \E i \in 1..Len(pieces) :
             /\ pieces[i][1] <= p
             /\ p < pieces[i][1] + pieces[i][2]
             /\ SliceStart([k \in 1..Len(pieces) |->
                               [len |-> pieces[k][2]]], i)
                   + (p - pieces[i][1]) = p
             /\ \A j \in 1..Len(pieces) :
                   (pieces[j][1] <= p /\ p < pieces[j][1] + pieces[j][2])
                      => j = i
    /\ \A i \in 1..Len(pieces) : pieces[i][1] + pieces[i][2] <= len

\* C12: for a payload of length L the uploader submits ceil(L/900) write
\* transactions, at offsets 0, 900, 1800, ...; every piece but possibly the
\* last is 900 bytes long; every piece carries the bytes of the payload that
\* belong at its offset, so that the pieces together are the payload; and
\* 50,000 bytes give 56 writes, the last at offset 55 * 900.
C12_ChunkingReconstructs ==
    LET w == Writes(log)
        L == PayloadLen(CreateOf(log))
        n == Ceil(L, chunk_size)
    IN /\ Len(w) <= n
       /\ \A i \in 1..Len(w) :
             /\ w[i].offset = (i - 1) * chunk_size
             /\ w[i].offset = SliceStart(w, i)
             /\ i < n => w[i].len = chunk_size
             /\ w[i].len >= 1
             /\ w[i].offset + w[i].len <= L
       /\ UploadComplete
             => /\ Len(w) = n
                /\ \A i \in 1..n : w[i].out = "confirmed"
                /\ buffers[run.buffer_pubkey].written
                      = [i \in 1..n |-> <<w[i].offset, w[i].len>>]
                /\ Reconstructs(buffers[run.buffer_pubkey].written, L)
                /\ L = 50000
                      => /\ n = 56
                         /\ w[n].offset = 55 * 900

\* C12 witness: the 56 writes of a payload of 50,000 bytes were confirmed
C12_Witness ==
    /\ UploadComplete
    /\ run.len = 50000
    /\ Len(Writes(log)) = 56
    /\ Last(log).offset = 55 * 900
    /\ Last(log).len = 500

\* the pieces of the log's confirmed write transactions, in the order in
\* which they were confirmed
ConfirmedPieces(l) ==
    LET c == SelectSeq(Writes(l), LAMBDA e : e.out = "confirmed")
    IN [i \in 1..Len(c) |-> <<c[i].offset, c[i].len>>]

\* pieces that lie end to end from offset 0
GapFreePrefix(pieces) ==
    \A k \in 1..Len(pieces) :
       pieces[k][1] =
          SliceStart([j \in 1..Len(pieces) |-> [len |-> pieces[j][2]]], k)

\* C13: in a deploy or upgrade the write transactions are submitted in
\* strictly increasing offset order, each one only after the write before it
\* was confirmed; the ledger holds the pieces in the order of their offsets,
\* and at every moment they are a prefix of the payload without a gap.
C13_WritesInOffsetOrder ==
    cmd \in {"deploy", "upgrade"}
       => LET w == Writes(log)
          IN /\ \A i \in 1..Len(w) :
                   \A j \in 1..(i - 1) :
                      /\ w[j].offset < w[i].offset
                      /\ w[j].out = "confirmed"
             /\ GapFreePrefix(ConfirmedPieces(log))
             /\ \A b \in DOMAIN buffers :
                   /\ buffers[b].written = ConfirmedPieces(log)
                   /\ GapFreePrefix(buffers[b].written)

\* C13 witness: the second piece of an upgrade was confirmed after the first
\* and the buffer holds both, end to end
C13_Witness ==
    /\ cmd = "upgrade"
    /\ pc = "upg_swap"
    /\ Len(buffers[run.buffer_pubkey].written) = 2
    /\ buffers[run.buffer_pubkey].written[2][1] = chunk_size

\* C14: in a deploy or upgrade a failed transaction (buffer creation, a
\* write, the activation or the upgrade) ends the command with an error:
\* it is the last remote call of the command, so nothing is submitted again,
\* no later chunk is written, no activation or upgrade follows it and no
\* transaction cleans up; no transaction is submitted twice; and the buffer
\* stays on the ledger with the pieces that were confirmed.
C14_FailureIsFatal ==
    cmd \in {"deploy", "upgrade"}
       => /\ \A i \in 1..Len(log) :
                (IsTx(log[i]) /\ log[i].out = "failed")
                   => /\ i = Len(log)
                      /\ pc = "idle"
                      /\ result.ret = "Err"
                      /\ log[i].kind \in {"write", "deploy", "upgrade"}
                            => /\ log[i].buf \in DOMAIN buffers
                               /\ buffers[log[i].buf].written
                                     = ConfirmedPieces(log)
          /\ \A i \in 1..Len(log) :
                /\ log[i].kind
                      \in {"verify", "create_buffer", "write", "deploy",
                           "upgrade", "save_state"}
                /\ \A j \in 1..(i - 1) :
                      /\ log[i].kind = log[j].kind
                            => log[i].kind = "write"
                      /\ (log[i].kind = "write" /\ log[j].kind = "write")
                            => log[i].offset # log[j].offset

\* C14 witness: the write of the second of two chunks of a deploy failed;
\* the command returned the error and the buffer holds the first piece
C14_Witness ==
    /\ IdleAfter("deploy")
    /\ result = ErrChunk(2, 2)
    /\ Len(log) = 3
    /\ log[3].out = "failed"
    /\ log[1].buf \in DOMAIN buffers
    /\ Len(buffers[log[1].buf].written) = 1

\* C15: a deploy or upgrade that does not return Ok leaves the saved Project
\* State exactly as it was when the command started: no record is added, no
\* last_upgraded is set and last_balance is not changed; and nothing is saved
\* while the command is still running.
C15_FailureLeavesStateAlone ==
    cmd \in {"deploy", "upgrade"}
       => /\ pc # "idle" => state = start.state
          /\ (pc = "idle" /\ result # Ok)
                => /\ state = start.state
                   /\ Records = StartRecords
                   /\ state.last_balance = start.state.last_balance

\* C15 witness: the upgrade transaction failed after the buffer was written,
\* and the record and the balance are as they were
C15_Witness ==
    /\ IdleAfter("upgrade")
    /\ result = Err("Failed to upgrade program")
    /\ Len(log) >= 4
    /\ Last(log).out = "failed"
    /\ state = start.state
    /\ Last(Records).last_upgraded = None
    /\ state.last_balance # MIN_UPGRADE_BALANCE

\* the command before this one was the deploy that saved the last record
StartedAfterDeploy ==
    /\ StartRecords # <<>>
    /\ Last(StartRecords).deployed_at = clock - 1

C17_ConfirmedProgramHasRecord ==
    (IdleAfter("deploy") /\ result = Stopped)
       => \A prog \in DOMAIN programdata :
             <<"deploy", prog>> \in confirmed
                => \E i \in 1..Len(Records) : Records[i].program_id = prog

\* a step keeps every record in its place with its program_id and
\* deployed_at, adds at most one record, at the end, and adds one exactly
\* when a deploy saves after its confirmed activation
RecordsStep ==
    LET old == state.deployed_programs
        new == state'.deployed_programs
        deploy_saved ==
            /\ cmd = "deploy"
            /\ pc = "dep_save"
            /\ result' = Ok
    IN /\ Len(new) >= Len(old)
       /\ Len(new) <= Len(old) + 1
       /\ \A i \in 1..Len(old) :
             /\ new[i].program_id = old[i].program_id
             /\ new[i].deployed_at = old[i].deployed_at
       /\ Len(new) = Len(old) + 1 <=> deploy_saved
       /\ deploy_saved
             => /\ new[Len(new)].program_id = run.program_id
                /\ new[Len(new)].program_id
                      \notin {old[i].program_id : i \in 1..Len(old)}
                /\ cmd' = "deploy"
       /\ cmd \in {"rotate", "finalize"} /\ pc # "idle" => new = old

\* C18: the Deployed-Program Records are append-only under every step of
\* deploy, upgrade, rotate and finalize: a successful deploy appends exactly
\* one record at the end, and no step removes or reorders a record or changes
\* the program_id or deployed_at of a record.
C18_RecordsAppendOnly == [][RecordsStep]_vars

\* C18 witness: a second program was deployed after the first was upgraded,
\* and the first record is still in its place
C18_Witness ==
    /\ IdleAfter("deploy")
    /\ result = Ok
    /\ Len(Records) = 2
    /\ Records[1].last_upgraded # None
    /\ Records[1].deployed_at < Records[2].deployed_at

\* C19: a deploy or upgrade goes on past its balance check, and so submits
\* transactions, only with a balance that exceeds its minimum, the deploy
\* minimum being the higher one; with a balance that does not exceed the
\* minimum nothing is submitted.
C19_BalanceExceedsMinimum ==
    /\ MIN_DEPLOY_BALANCE > MIN_UPGRADE_BALANCE
    /\ (cmd = "deploy" /\ pc # "idle" /\ \E i \in 1..Len(log) : IsTx(log[i]))
          => run.balance > MIN_DEPLOY_BALANCE
    /\ (cmd = "upgrade" /\ pc # "idle" /\ \E i \in 1..Len(log) : IsTx(log[i]))
          => run.balance > MIN_UPGRADE_BALANCE

\* C20: the remote call straight before every upgrade transaction and every
\* set-authority transaction of upgrade, finalize and rotate is a read of the
\* same program's account on which the Authority Verifier succeeded, so that
\* no transaction lies between the verification and the mutation.
C20_VerifiedImmediatelyBefore ==
    \A i \in 1..Len(log) :
       log[i].kind \in {"upgrade", "set_authority"}
          => /\ i > 1
             /\ log[i - 1].kind = "verify"
             /\ log[i - 1].prog = log[i].prog
             /\ log[i - 1].out = Ok

\* C21: a command has one transaction at a time: a transaction is built and
\* submitted only after every transaction the command submitted before it
\* was confirmed, and while the command runs no transaction of it is
\* unconfirmed.
C21_OneTransactionAtATime ==
    /\ \A i \in 1..Len(log) :
          \A j \in 1..(i - 1) :
             (IsTx(log[i]) /\ IsTx(log[j])) => log[j].out = "confirmed"
    /\ pc # "idle"
          => \A i \in 1..Len(log) :
                IsTx(log[i]) => log[i].out = "confirmed"

\* C21 witness: rotate has had its first two transfers confirmed, one after
\* the other, and is about to save
C21_Witness ==
    /\ cmd = "rotate"
    /\ pc = "rot_save"
    /\ Len(log) = 2
    /\ log[1].out = "confirmed"
    /\ log[2].out = "confirmed"
    /\ log[1].prog # log[2].prog

\* a step leaves the account of every program without an authority as it is
FinalizedStep ==
    \A prog \in DOMAIN programdata :
       programdata[prog].upgrade_authority_address = None
          => /\ prog \in DOMAIN programdata'
             /\ programdata'[prog] = programdata[prog]

\* an upgrade or finalize of a program that had no authority when the
\* command started ends in its verifier, with an error and no transaction
FinalizedAbortsAtVerifier ==
    (/\ cmd \in {"upgrade", "finalize"}
     /\ log # <<>>
     /\ log[1].prog \in DOMAIN start.programdata
     /\ StartAuthority(log[1].prog) = None)
       => /\ Len(log) = 1
          /\ log[1].kind = "verify"
          /\ log[1].out # Ok
          /\ pc = "idle"
          /\ result = log[1].out
          /\ programdata = start.programdata

\* C22: a program whose authority has become None keeps its code and its
\* absent authority under every later step of upgrade, rotate and finalize,
\* and an upgrade or finalize of it ends at the Authority Verifier.
C22_FinalizedStaysFinalized ==
    []FinalizedAbortsAtVerifier /\ [][FinalizedStep]_vars

\* C22 witness: an upgrade of a program that was deployed and then finalized
\* was refused by the verifier
C22_Witness ==
    /\ IdleAfter("upgrade")
    /\ Len(log) = 1
    /\ log[1].account.kind = "ProgramData"
    /\ StartAuthority(log[1].prog) = None
    /\ <<"deploy", log[1].prog>> \in confirmed
    /\ result = Err("Program is not upgradeable (authority set to None)")

\* C23: a deploy of an empty payload creates a buffer of the size of the
\* header alone, submits no write transaction, and goes from the confirmed
\* buffer creation straight to the activation transaction: its transactions
\* are the buffer creation and the activation, in that order.
C23_EmptyPayloadDeploy ==
    (cmd = "deploy" /\ log # <<>> /\ PayloadLen(log[1]) = 0)
       => /\ log[1].kind = "create_buffer"
          /\ log[1].size = BUFFER_METADATA_SIZE
          /\ \A i \in 1..Len(log) : log[i].kind # "write"
          /\ pc # "dep_write"
          /\ (Len(log) = 1 /\ log[1].out = "confirmed" /\ pc # "idle")
                => pc = "dep_activate"
          /\ Len(log) >= 2
                => /\ log[1].out = "confirmed"
                   /\ log[2].kind = "deploy"
                   /\ log[2].buf = log[1].buf
                   /\ log[2].max_data_len = 0
          /\ Len(log) <= 3
          /\ (pc = "idle" /\ result = Ok) => Len(log) = 3

\* C23 witness: an empty payload was deployed with two transactions
C23_Witness ==
    /\ IdleAfter("deploy")
    /\ result = Ok
    /\ Len(log) = 3
    /\ log[1].size = BUFFER_METADATA_SIZE
    /\ log[2].kind = "deploy"
    /\ log[2].out = "confirmed"

\* the payload lengths of the model, their successors, and 50,000
SizeLens == Lens \cup {len + 1 : len \in Lens} \cup {50000}

\* C24: the buffer size computed for a payload is the header plus the
\* payload length, so never less than the payload and never less than the
\* size for a shorter payload; and the buffer-creation transaction of deploy
\* and of upgrade asks for exactly that size, which is the size of the
\* account the ledger then holds.
C24_BufferSizeFitsPayload ==
    /\ \A len \in SizeLens :
          /\ size_of_buffer(len) = BUFFER_METADATA_SIZE + len
          /\ size_of_buffer(len) >= len
          /\ \A shorter \in SizeLens :
                shorter <= len
                   => size_of_buffer(shorter) <= size_of_buffer(len)
    /\ \A i \in 1..Len(log) :
          log[i].kind = "create_buffer"
             => /\ cmd \in {"deploy", "upgrade"}
                /\ pc # "idle" => log[i].size = size_of_buffer(run.len)
                /\ log[i].size >= BUFFER_METADATA_SIZE
                /\ PayloadLen(log[i]) \in Lens
                /\ log[i].buf \in DOMAIN buffers
                      => buffers[log[i].buf].size = log[i].size

\* C24 witness: an upgrade had the buffer for a payload of a chunk and a
\* byte created
C24_Witness ==
    /\ cmd = "upgrade"
    /\ pc = "upg_write"
    /\ run.len = chunk_size + 1
    /\ log[2].size = BUFFER_METADATA_SIZE + chunk_size + 1
    /\ buffers[log[2].buf].size = log[2].size

\* C25: every transaction of deploy and upgrade is signed by exactly the
\* keys prescribed for it, the payer and authority being the controlling key
\* the command loaded: the buffer creation by the payer and the new buffer's
\* key, a write by the authority alone, deploy's activation by the authority
\* and the program's identity key, upgrade's transaction by the authority
\* alone.
C25_PrescribedSigners ==
    cmd \in {"deploy", "upgrade"}
       => \A i \in 1..Len(log) :
             LET e == log[i]
                 key == DeployerKey(start.deployer)
             IN /\ e.kind = "create_buffer"
                      => e.signers = {key, BufferKey(e.buf)}
                /\ e.kind = "write" => e.signers = {key}
                /\ e.kind = "deploy"
                      => e.signers = {key, ProgramKey(e.prog)}
                /\ e.kind = "upgrade"
                      => /\ e.signers = {key}
                         /\ ProgramKey(e.prog) \notin e.signers
                /\ IsTx(e) => Cardinality(e.signers) \in {1, 2}

\* C25 witness: an upgrade of one chunk had its three kinds of transaction
\* confirmed, the last one signed without the program's key
C25_Witness ==
    /\ cmd = "upgrade"
    /\ pc = "upg_save"
    /\ Len(log) = 4
    /\ log[3].kind = "write"
    /\ Last(log).kind = "upgrade"
    /\ Last(log).signers = {DeployerKey(deployer)}

\* the step labels of the transactions that can fail
StepLabels ==
    {"Failed to create buffer account", "Failed to write chunk",
     "Failed to deploy program", "Failed to upgrade program",
     "Failed to transfer authority", "Failed to finalize program"}

C27_ReservesTwicePayload ==
    \A i \in 1..Len(log) :
        log[i].kind = "deploy"
           => /\ cmd = "deploy"
              /\ log[i].max_data_len = 2 * PayloadLen(log[1])
              /\ log[i].max_data_len = 2 * WrittenBytes(log, i - 1)

\* C27 witness: a payload of a chunk and a byte was activated with 1802
\* bytes reserved
C27_Witness ==
    /\ cmd = "deploy"
    /\ Len(log) = 4
    /\ log[4].kind = "deploy"
    /\ log[4].out = "confirmed"
    /\ PayloadLen(log[1]) = chunk_size + 1
    /\ log[4].max_data_len = 2 * chunk_size + 2

\* the pieces of the running upload whose write has been confirmed
ConfirmedPieceNumbers ==
    [i \in 1..Len(SelectSeq(log, LAMBDA e :
                      e.kind = "write" /\ e.out = "confirmed")) |-> i]

\* C28: while a deploy or an upgrade runs, a progress line has been printed
\* for every piece whose write has been confirmed, in order, before the next
\* piece is submitted.
C28_ProgressAfterEveryPiece ==
    (run.cmd \in {"deploy", "upgrade"})
       => run.progress = ConfirmedPieceNumbers

\* C29: once a command has ended, every tracked program that still has an
\* upgrade authority has the persisted key as that authority: no tracked
\* program is under a generated key that was never saved.
C29_AuthorityIsPersistedKey ==
    pc = "idle"
       => \A i \in 1..Len(Records) :
             Authority(Records[i].program_id) \in {None, deployer}

\* some tracked program had been finalized when the command started
StartedWithFinalized ==
    \E i \in 1..Len(StartRecords) : StartAuthority(TransferOf(i)) = None

\* every call of the command went through and no transfer of a program that
\* still had an upgrade authority failed
UpgradeableTransfersAccepted ==
    /\ result.step \notin {"Failed to get latest blockhash",
                           "Failed to save new deployer"}
    /\ \A i \in 1..Len(log) :
          (log[i].kind = "set_authority" /\ log[i].out = "failed")
             => StartAuthority(log[i].prog) = None

\* C30: a rotate that was started with a finalized program among the tracked
\* ones, and in which every transfer of a still-upgradeable program was
\* accepted, ends with the new key adopted; it does not stop at the finalized
\* record.
C30_RotateCompletesWithFinalized ==
    (/\ IdleAfter("rotate")
     /\ result.ret \in {"Ok", "Err"}
     /\ StartedWithFinalized
     /\ UpgradeableTransfersAccepted)
       => /\ result = Ok
          /\ deployer # start.deployer
          /\ \A i \in 1..Len(log) :
                log[i].kind = "set_authority" => log[i].out = "confirmed"

\* C31: an upgrade works on the last Deployed-Program Record: its verifier
\* and its upgrade transaction are for the program of that record, and when
\* it returns Ok it has set last_upgraded of that record and last_balance,
\* added no record and left every other record as it was.
C31_UpgradeTargetsLastRecord ==
    cmd = "upgrade"
       => /\ \A i \in 1..Len(log) :
                log[i].kind \in {"verify", "upgrade"}
                   => log[i].prog = Last(StartRecords).program_id
          /\ (pc = "idle" /\ result = Ok)
                => LET n == Len(StartRecords)
                   IN /\ Len(Records) = n
                      /\ \A i \in 1..(n - 1) : Records[i] = StartRecords[i]
                      /\ Records[n] = [StartRecords[n] EXCEPT
                                           !.last_upgraded = clock]
                      /\ Records[n].last_upgraded # None
                      /\ state.last_balance >= MIN_UPGRADE_BALANCE

\* C31 witness: with two records, the first never upgraded, an upgrade
\* returned Ok and only the second record has last_upgraded set
C31_Witness ==
    /\ IdleAfter("upgrade")
    /\ result = Ok
    /\ Len(Records) = 2
    /\ Records[1].last_upgraded = None
    /\ Records[2].last_upgraded = clock
    /\ StartRecords[2].last_upgraded = None

\* where in the joint record an invocation saved the state (0: it did not)
SavedAt(other) ==
    LET at == {i \in 1..Len(log) :
                  /\ log[i].kind = "save_state"
                  /\ log[i].out = TRUE
                  /\ IsOfOther(log[i]) = other}
    IN IF at = {} THEN 0 ELSE CHOOSE i \in at : TRUE
RecordIds == {Records[i].program_id : i \in 1..Len(Records)}

\* C32: nothing protects the state file against a second writer.  When the
\* deploy of another process saves its record after the upgrade loaded the
\* state and before the upgrade saves, the save of the upgrade writes what
\* it loaded: the record of the deploy is gone from the file though its
\* program is on the ledger.  When the saves do not overlap so (the deploy
\* saves after the upgrade has, or the upgrade never saves) the record stays.
C32_OverlappingSaveLosesRecord ==
    LET d == SavedAt(TRUE)
        u == SavedAt(FALSE)
    IN /\ (d > 0 /\ u > d)
             => /\ OtherProgram \notin RecordIds
                /\ <<"deploy", OtherProgram>> \in confirmed
                /\ Len(Records) = Len(StartRecords)
       /\ (d > 0 /\ u < d)
             => /\ Last(Records).program_id = OtherProgram
                /\ Len(Records) = Len(StartRecords) + 1

\* C32 witness: the upgrade returned Ok after the deploy of the other
\* process had saved, and the file holds one record, not that of the deploy
C32_Witness ==
    /\ IdleAfter("upgrade")
    /\ result = Ok
    /\ SavedAt(TRUE) > 0
    /\ SavedAt(FALSE) > SavedAt(TRUE)
    /\ Len(Records) = 1
    /\ Records[1].last_upgraded = clock
    /\ OtherProgram \in DOMAIN programdata

\* the user answered no to the prompt, or typed another program id
Declined ==
    \/ result = Cancelled
    \/ result = Err("Program ID mismatch. Finalization cancelled.")

\* C33: a deploy, upgrade, rotate or finalize that ended because the user
\* declined the prompt, or typed a program id other than the one to be
\* finalized, made no read of an account and sent no transaction, and left
\* the keypair, the Project State and the ledger as they were.
C33_DecliningHasNoEffect ==
    (/\ pc = "idle"
     /\ cmd \in {"deploy", "upgrade", "rotate", "finalize"}
     /\ Declined)
       => /\ log = <<>>
          /\ deployer = start.deployer
          /\ state = start.state
          /\ programdata = start.programdata
          /\ buffers = <<>>

\* C33 witness: with a program deployed, the user confirmed the prompt of
\* finalize and then typed another program id
C33_Witness ==
    /\ IdleAfter("finalize")
    /\ result = Err("Program ID mismatch. Finalization cancelled.")
    /\ Records # <<>>
    /\ Authority(Last(Records).program_id) = deployer
    /\ log = <<>>

\* a step that writes the keypair file is the save of init in a directory
\* without a keypair, or the save of a rotate all of whose transfers, one for
\* every record, were confirmed
KeypairStep ==
    /\ deployer' # deployer
          => \/ /\ pc = "idle"
                /\ cmd' = "init"
                /\ deployer = None
                /\ deployer' = NewDeployer(clock')
             \/ /\ cmd = "rotate"
                /\ pc = "rot_save"
                /\ deployer' = run.new_deployer
                /\ result' = Ok
                /\ Len(log) = Len(StartRecords)
                /\ \A i \in 1..Len(log) :
                      /\ log[i].kind = "set_authority"
                      /\ log[i].out = "confirmed"
                      /\ log[i].new_authority = deployer'
    /\ (pc = "idle" /\ cmd' = "init" /\ deployer # None)
          => /\ result' = Err("Private deployer already exists")
             /\ deployer' = deployer
             /\ state' = state
    /\ cmd' \in {"deploy", "upgrade", "fund", "finalize"}
          => deployer' = deployer

\* C34: the keypair file is written only by init when there is none and by
\* a rotate whose transfers all succeeded; init with a keypair in place
\* fails and writes nothing; deploy, upgrade, fund and finalize never write
\* the keypair.
C34_KeypairWrittenByInitAndRotate == [][KeypairStep]_vars

\* C34 witness: init was run in a project that has a keypair and a deployed
\* program, and failed leaving both
C34_Witness ==
    /\ IdleAfter("init")
    /\ result = Err("Private deployer already exists")
    /\ deployer # None
    /\ deployer = start.deployer
    /\ Records # <<>>
    /\ state = start.state

\* the command ended on a precondition it tests on the local files
LocalPreconditionFailed ==
    /\ result.ret = "Err"
    /\ result.step \in {"No private deployer found",
                        "No programs deployed yet",
                        "No program file found"}

\* C35: deploy, upgrade, rotate, finalize and fund started without a keypair
\* end at once with the error that says so, and so does an upgrade started
\* without a Deployed-Program Record; a deploy or upgrade that goes on has a
\* program file; and a command that ended on one of these preconditions, or
\* on a missing program file, read no account, sent no transaction and left
\* the keypair, the Project State and the ledger as they were.
C35_LocalFailuresBeforeRemoteCalls ==
    /\ (cmd \in {"deploy", "upgrade", "rotate", "finalize", "fund"}
          /\ start.deployer = None)
          => /\ pc = "idle"
             /\ result = Err("No private deployer found")
    /\ (cmd = "upgrade" /\ start.deployer # None /\ StartRecords = <<>>)
          => /\ pc = "idle"
             /\ result = Err("No programs deployed yet")
    /\ (cmd \in {"deploy", "upgrade"} /\ pc # "idle")
          => run.len # NoFile
    /\ (pc = "idle" /\ LocalPreconditionFailed)
          => /\ log = <<>>
             /\ deployer = start.deployer
             /\ state = start.state
             /\ programdata = start.programdata
             /\ buffers = <<>>

\* C35 witness: after init, an upgrade was started with no program deployed
C35_Witness ==
    /\ IdleAfter("upgrade")
    /\ result = Err("No programs deployed yet")
    /\ deployer # None
    /\ deployer # InitKey
    /\ Records = <<>>
    /\ log = <<>>

\* the i-th write of a payload of length len into a buffer, signed by the
\* authority: the i-th run of chunk_size bytes, the last one shorter
ExpectedWrite(buf, len, authority, i) ==
    [buf |-> buf,
     offset |-> (i - 1) * chunk_size,
     len |-> IF i * chunk_size <= len
               THEN chunk_size ELSE len - (i - 1) * chunk_size,
     signers |-> {DeployerKey(authority)}]

\* C36: the uploader of deploy and that of upgrade send the same write
\* transactions: for a payload of length L and a buffer, the i-th write of
\* either is the write of bytes (i-1)*900 up to min(i*900, L) into that
\* buffer signed by the authority alone, there are ceil(L/900) of them when
\* the upload is through, and a failed write is the last one and ends the
\* command with the error for chunk i of ceil(L/900).
C36_UploadersAgree ==
    (cmd \in {"deploy", "upgrade"} /\ Len(log) >= 2)
       => LET create == CreateOf(log)
              w == Writes(log)
              L == PayloadLen(create)
              n == Ceil(L, chunk_size)
          IN /\ Len(w) <= n
             /\ \A i \in 1..Len(w) :
                   /\ [buf |-> w[i].buf, offset |-> w[i].offset,
                       len |-> w[i].len, signers |-> w[i].signers]
                         = ExpectedWrite(create.buf, L, start.deployer, i)
                   /\ w[i].out = "failed"
                         => /\ i = Len(w)
                            /\ pc = "idle"
                            /\ result = ErrChunk(i, n)
                   /\ i < Len(w) => w[i].out = "confirmed"
             /\ pc \in {"dep_write", "upg_write"} => Len(w) < n
             /\ pc \in {"dep_activate", "upg_swap"}
                   => /\ Len(w) = n
                      /\ w # <<>> => w[n].out = "confirmed"

\* C36 witness: an upgrade has written a payload of 901 bytes in two pieces,
\* of 900 bytes at 0 and of 1 byte at 900
C36_Witness ==
    /\ cmd = "upgrade"
    /\ pc = "upg_swap"
    /\ PayloadLen(CreateOf(log)) = chunk_size + 1
    /\ Len(Writes(log)) = 2
    /\ Writes(log)[2].offset = chunk_size
    /\ Writes(log)[2].len = 1

\* the buffers from which the programs on the ledger were loaded when the
\* command started: those of the runs before this one that got that far
StartBuffers ==
    {start.programdata[p].code : p \in DOMAIN start.programdata}
CreatesIn(l) == SelectSeq(l, LAMBDA e : e.kind = "create_buffer")

\* C37: a deploy or upgrade creates one buffer, with a key generated in that
\* run; every write and the activation or upgrade transaction of the run
\* name that buffer, and it is not the buffer of any earlier run.
C37_OneFreshBufferPerRun ==
    cmd \in {"deploy", "upgrade"}
       => /\ Len(CreatesIn(log)) <= 1
          /\ \A i \in 1..Len(CreatesIn(log)) :
                CreatesIn(log)[i].buf \notin StartBuffers
          /\ \A i \in 1..Len(log) :
                log[i].kind \in {"write", "deploy", "upgrade"}
                   => /\ CreateOf(log).kind = "create_buffer"
                      /\ CreateOf(log).out = "confirmed"
                      /\ log[i].buf = CreateOf(log).buf
                      /\ log[i].buf = NewBuffer(clock)

\* C37 witness: the second upgrade of a program has written two pieces and
\* swapped, all on the buffer it created
C37_Witness ==
    /\ cmd = "upgrade"
    /\ pc = "upg_save"
    /\ Last(StartRecords).last_upgraded # None
    /\ Len(Writes(log)) = 2
    /\ Last(log).kind = "upgrade"
    /\ Last(log).buf = log[2].buf
    /\ Last(log).buf \notin StartBuffers

\* the transactions the running command has submitted
TxCount == Len(SelectSeq(log, IsTx))

\* a bound on the remote calls and saves a deploy or upgrade has yet to make
Remaining ==
    CASE pc \in {"dep_save", "upg_save"} -> 1
      [] pc \in {"dep_activate", "upg_swap"} -> 2
      [] pc \in {"dep_write", "upg_write"} ->
            2 + total_chunks(run.len) - run.chunk_index
      [] pc \in {"dep_create_buffer", "upg_create_buffer"} ->
            3 + total_chunks(run.len)
      [] pc = "upg_verify" -> 4 + total_chunks(run.len)
      [] OTHER -> 0

\* every step of a deploy or upgrade brings its end nearer
RunStepForward ==
    (cmd \in {"deploy", "upgrade"} /\ pc # "idle")
       => /\ Remaining > 0
          /\ Remaining' < Remaining
          /\ Remaining' >= 0

\* a deploy or upgrade that returned Ok submitted ceil(L/900) + 2
\* transactions: one buffer creation, ceil(L/900) writes, one activation or
\* upgrade
SuccessfulRunCount ==
    (cmd \in {"deploy", "upgrade"} /\ pc = "idle" /\ result = Ok)
       => LET n == Ceil(PayloadLen(CreateOf(log)), chunk_size)
          IN /\ TxCount = n + 2
             /\ Len(CreatesIn(log)) = 1
             /\ Len(Writes(log)) = n
             /\ Len(SelectSeq(log, LAMBDA e :
                        e.kind \in {"deploy", "upgrade"})) = 1

\* a deploy or upgrade that returned an error submitted fewer
FailedRunFewer ==
    (cmd \in {"deploy", "upgrade"} /\ pc = "idle" /\ result.ret = "Err")
       => IF CreatesIn(log) = <<>>
            THEN TxCount = 0
          ELSE TxCount < Ceil(PayloadLen(CreateOf(log)), chunk_size) + 2

\* a deploy or upgrade that returned an error submitted no more, and fewer
\* unless the run got as far as its activation or upgrade transaction
FailedRunNoMore ==
    (cmd \in {"deploy", "upgrade"} /\ pc = "idle" /\ result.ret = "Err")
       => IF CreatesIn(log) = <<>>
            THEN TxCount = 0
          ELSE LET n == Ceil(PayloadLen(CreateOf(log)), chunk_size)
               IN /\ TxCount <= n + 2
                  /\ TxCount = n + 2
                        <=> \E i \in 1..Len(log) :
                               log[i].kind \in {"deploy", "upgrade"}

\* C38 as stated: deploy and upgrade come to an end when every remote call
\* returns, a successful run on a payload of length L submits exactly
\* ceil(L/900) + 2 transactions, and a failed run submits fewer.
C38_FailedRunSubmitsFewer ==
    /\ [](SuccessfulRunCount /\ FailedRunFewer)
    /\ [][RunStepForward]_vars

\* C38 amended: deploy and upgrade come to an end when every remote call
\* returns, a successful run on a payload of length L submits exactly
\* ceil(L/900) + 2 transactions, and a failed run submits at most that many:
\* fewer unless it failed at its activation or upgrade transaction or at the
\* save of the Project State that follows it.
C38_TerminatesWithBoundedTransactions ==
    /\ [](SuccessfulRunCount /\ FailedRunNoMore)
    /\ [][RunStepForward]_vars

\* C38 witness: an upgrade with a payload of 901 bytes returned Ok after
\* four transactions
C38_Witness ==
    /\ IdleAfter("upgrade")
    /\ result = Ok
    /\ PayloadLen(CreateOf(log)) = chunk_size + 1
    /\ TxCount = 4

\* C39: in the activation transaction of a deploy the Program-Data account is
\* funded for the size it has at the reserved maximum length: the size whose
\* rent-exempt minimum is supplied is the Program-Data size of max_data_len.
C39_FundedSizeIsReservedSize ==
    \A i \in 1..Len(log) :
        log[i].kind = "deploy"
           => log[i].programdata_size
                 = size_of_programdata(log[i].max_data_len)

====
